---- MODULE Spec2Model ----
(***************************************************************************)
(* Model of the Word-to-JSON source-description converter                   *)
(* (src/convert_source_description).                                        *)
(*                                                                          *)
(* A Python string is a sequence of one-character strings.  In the          *)
(* serialisation of a BeautifulSoup tag the markup tags ("<p>", "<strong>", *)
(* ...) are single elements of that sequence: no operation of the modelled  *)
(* code cuts a markup tag in two.  The document (the soup) is the sequence  *)
(* of the block elements of the body; each block has a tag name and its     *)
(* inner markup.                                                            *)
(***************************************************************************)
EXTENDS Integers, Sequences, FiniteSets, TLC

VARIABLES
    soup,               \* the parsed document: Seq([name, inner])
    pc,                 \* position of the running call
    siglum_indices,     \* create_source_list: result of the siglum scan
    loop_i,             \* create_source_list: 1-based position in siglum_indices
    sources,            \* create_source_list: source_list['sources']
    stdout,             \* lines printed by create_source_list
    call,               \* the last helper call: [fn, label, paras, ret]
    images1,            \* compare_pdfs: the pages of the first PDF
    images2,            \* compare_pdfs: the pages of the second PDF
    futures,            \* compare_pages_in_parallel: the task of each index
    diff_images,        \* the files written to diff_images/: [page_num, by]
    results,            \* compare_pages_in_parallel: list(executor.map(...))
    pages_with_changes, \* compare_pages_in_parallel: the list returned
    diff_txt,           \* diff_images/diff.txt: the message written
    textcritics,        \* process_table: textcritics['commentary']['comments']
    block_index,        \* process_table: the index of the current comment block
    row                 \* _process_table_rows: 1-based position of the row of the loop

compare_vars ==
    <<images1, images2, futures, diff_images, results, pages_with_changes, diff_txt>>

list_vars == <<soup, siglum_indices, loop_i, sources, stdout, call>>

table_vars == <<textcritics, block_index, row>>

vars == <<soup, pc, siglum_indices, loop_i, sources, stdout, call,
          images1, images2, futures, diff_images, results, pages_with_changes,
          diff_txt, textcritics, block_index, row>>

\* No PDFs are compared.
NoComparison ==
    /\ images1 = <<>>
    /\ images2 = <<>>
    /\ futures = <<>>
    /\ diff_images = {}
    /\ results = <<>>
    /\ pages_with_changes = <<>>
    /\ diff_txt = <<>>

\* No table is processed.
NoTable ==
    /\ textcritics = <<>>
    /\ block_index = -1
    /\ row = 0

----------------------------------------------------------------------------
(* Python strings *)

P_OPEN == "<p>"
P_CLOSE == "</p>"
STRONG_OPEN == "<strong>"
STRONG_CLOSE == "</strong>"
SUP_OPEN == "<sup>"
SUP_CLOSE == "</sup>"
EM_OPEN == "<em>"
EM_CLOSE == "</em>"
TABLE_OPEN == "<table>"
TABLE_CLOSE == "</table>"

\* Where an element was extracted from a paragraph, the two neighbouring text
\* nodes stay two nodes; the serialisation does not show the seam.
NODE_SEAM == "<|>"

MarkupTags ==
    {P_OPEN, P_CLOSE, STRONG_OPEN, STRONG_CLOSE, SUP_OPEN, SUP_CLOSE,
     EM_OPEN, EM_CLOSE, TABLE_OPEN, TABLE_CLOSE}

UpperCase ==
    {"A", "B", "C", "D", "E", "F", "G", "H", "I", "J", "K", "L", "M",
     "N", "O", "P", "Q", "R", "S", "T", "U", "V", "W", "X", "Y", "Z"}
LowerCase ==
    {"a", "b", "c", "d", "e", "f", "g", "h", "i", "j", "k", "l", "m",
     "n", "o", "p", "q", "r", "s", "t", "u", "v", "w", "x", "y", "z"}
Digits == {"0", "1", "2", "3", "4", "5", "6", "7", "8", "9"}
\* The character U+2013 (SANY reads ASCII only).
EN_DASH == "u2013"
\* Whitespace of str.strip() and of \s; "xa0" is the no-break space U+00A0.
NBSP == "xa0"
Whitespace == {" ", "\t", "\n", NBSP}

IsSpace(c) == c \in Whitespace

MinOf(S) == CHOOSE i \in S : \A j \in S : i <= j
MaxOf(S) == CHOOSE i \in S : \A j \in S : j <= i
FirstOf(hits) == IF hits = {} THEN 0 ELSE MinOf(hits)

\* s[i:] and s[:j] of Python, 1-based.
From(s, i) == SubSeq(s, i, Len(s))
Upto(s, j) == SubSeq(s, 1, j)

startswith(s, prefix) ==
    Len(prefix) <= Len(s) /\ Upto(s, Len(prefix)) = prefix

endswith(s, suffix) ==
    Len(suffix) <= Len(s) /\ From(s, Len(s) - Len(suffix) + 1) = suffix

\* str.find(sub): the 1-based position of the first occurrence, 0 when absent.
find(s, sub) ==
    FirstOf({i \in 1..(Len(s) - Len(sub) + 1) : SubSeq(s, i, i + Len(sub) - 1) = sub})

contains(s, sub) == find(s, sub) # 0

\* str.strip(): leading and trailing whitespace removed.
StripTo(s, keep) == IF keep = {} THEN <<>> ELSE SubSeq(s, MinOf(keep), MaxOf(keep))
strip(s) == StripTo(s, {i \in 1..Len(s) : ~IsSpace(s[i])})

\* str.rstrip(chars): the longest suffix made of chars removed.
RStripTo(s, keep) == IF keep = {} THEN <<>> ELSE Upto(s, MaxOf(keep))
rstrip(s, chars) == RStripTo(s, {i \in 1..Len(s) : s[i] \notin chars})

\* str.split(delimiter), delimiter not empty.
RECURSIVE split(_, _)
SplitAt(s, delimiter, at) ==
    IF at = 0 THEN <<s>>
    ELSE <<Upto(s, at - 1)>> \o split(From(s, at + Len(delimiter)), delimiter)
split(s, delimiter) == SplitAt(s, delimiter, find(s, delimiter))

StripEach(strings) == [k \in 1..Len(strings) |-> strip(strings[k])]

RECURSIVE Concat(_)
Concat(strings) ==
    IF strings = <<>> THEN <<>> ELSE Head(strings) \o Concat(Tail(strings))

----------------------------------------------------------------------------
(* BeautifulSoup tags *)

OpenTag(name) == IF name = "p" THEN P_OPEN ELSE TABLE_OPEN
CloseTag(name) == IF name = "p" THEN P_CLOSE ELSE TABLE_CLOSE

\* str(tag): the element with its own tags, seams invisible.
str(tag) ==
    <<OpenTag(tag.name)>> \o SelectSeq(tag.inner, LAMBDA c : c # NODE_SEAM)
        \o <<CloseTag(tag.name)>>

\* The text nodes (NavigableStrings) below a tag, in document order: the
\* maximal runs of characters between markup tags and seams.
NodeEnds == MarkupTags \cup {NODE_SEAM}

RECURSIVE TextNodes(_)
TextRun(inner, stop) ==
    IF stop = 0 THEN <<inner>>
    ELSE <<Upto(inner, stop - 1)>> \o TextNodes(From(inner, stop))
TextNodes(inner) ==
    IF inner = <<>> THEN <<>>
    ELSE IF inner[1] \in NodeEnds THEN TextNodes(Tail(inner))
    ELSE TextRun(inner, FirstOf({i \in 1..Len(inner) : inner[i] \in NodeEnds}))

\* tag.text
text(tag) == Concat(TextNodes(tag.inner))

\* tag.get_text(strip=True): every text node stripped, empty ones dropped.
get_text_strip(inner) == Concat(StripEach(TextNodes(inner)))

\* tag.find(string=re.compile(label)) is not None, for a label without regex
\* metacharacters: some text node below the tag contains the label.
AnyContains(strings, sub) == \E k \in 1..Len(strings) : contains(strings[k], sub)
find_string(tag, label) == AnyContains(TextNodes(tag.inner), label)

\* list.index of a 0-based Python list held as a 1-based sequence.
PyIndex(k) == k - 1

\* soup.find_all('p'): the paragraphs of the document, as positions in soup.
find_all_p(doc) ==
    LET RECURSIVE walk(_)
        walk(k) == IF k > Len(doc) THEN <<>>
                   ELSE (IF doc[k].name = "p" THEN <<k>> ELSE <<>>) \o walk(k + 1)
    IN  walk(1)

\* tag.next_sibling, as a position in soup; NoTag after the last block.
NoTag == 0
next_sibling(doc, pos) == IF pos < Len(doc) THEN pos + 1 ELSE NoTag

----------------------------------------------------------------------------
(* Regular expressions: re.compile(r"^...$").match(string) *)

Lit(c) == [k |-> "lit", v |-> c]
Class(S) == [k |-> "class", v |-> S]
Spaces == [k |-> "spaces", v |-> {}]
Opt(pattern) == [k |-> "opt", v |-> pattern]

RECURSIVE re_match(_, _)
re_match(pattern, s) ==
    IF pattern = <<>> THEN s = <<>> \/ s = <<"\n">>
    ELSE LET item == Head(pattern)
             rest == Tail(pattern)
         IN  CASE item.k = "lit" ->
                    s # <<>> /\ s[1] = item.v /\ re_match(rest, Tail(s))
               [] item.k = "class" ->
                    s # <<>> /\ s[1] \in item.v /\ re_match(rest, Tail(s))
               [] item.k = "spaces" ->
                    \/ re_match(rest, s)
                    \/ s # <<>> /\ IsSpace(s[1]) /\ re_match(pattern, Tail(s))
               [] item.k = "opt" ->
                    re_match(item.v \o rest, s) \/ re_match(rest, s)

\* ([a-zA-Z][0-9]?(-[0-9])?)? with the dash U+2013
AddendumGroup ==
    Opt(<<Class(LowerCase \cup UpperCase), Opt(<<Class(Digits)>>),
          Opt(<<Lit(EN_DASH), Class(Digits)>>)>>)

----------------------------------------------------------------------------
(* utils_helper.py: ConversionUtilsHelper *)

\* The pattern of a bold letter of either case.
siglum_pattern_any_case ==
    <<Lit(P_OPEN), Spaces, Lit(STRONG_OPEN), Spaces, Class(UpperCase \cup LowerCase),
      Spaces, Lit(STRONG_CLOSE), Spaces, Lit(P_CLOSE)>>

\* r"^<p>\s*<strong>\s*([A-Z])\s*</strong>\s*</p>$"
siglum_pattern ==
    <<Lit(P_OPEN), Spaces, Lit(STRONG_OPEN), Spaces, Class(UpperCase), Spaces,
      Lit(STRONG_CLOSE), Spaces, Lit(P_CLOSE)>>

\* r"^<p>\s*<strong>\s*\[([A-Z])\]\s*</strong>\s*</p>$"
siglum_missing_pattern ==
    <<Lit(P_OPEN), Spaces, Lit(STRONG_OPEN), Spaces, Lit("["), Class(UpperCase),
      Lit("]"), Spaces, Lit(STRONG_CLOSE), Spaces, Lit(P_CLOSE)>>

\* r"^<p>\s*<strong>\s*([A-Z])<sup>([a-zA-Z][0-9]?(-[0-9])?)?</sup>\s*</strong>\s*</p>$"
siglum_with_addendum_pattern ==
    <<Lit(P_OPEN), Spaces, Lit(STRONG_OPEN), Spaces, Class(UpperCase),
      Lit(SUP_OPEN), AddendumGroup, Lit(SUP_CLOSE), Spaces, Lit(STRONG_CLOSE),
      Spaces, Lit(P_CLOSE)>>

\* r"^<p>\s*<strong>\s*\[([A-Z])<sup>([a-zA-Z][0-9]?(-[0-9])?)?</sup>\]</strong>\s*</p>$"
siglum_with_addendum_missing_pattern ==
    <<Lit(P_OPEN), Spaces, Lit(STRONG_OPEN), Spaces, Lit("["), Class(UpperCase),
      Lit(SUP_OPEN), AddendumGroup, Lit(SUP_CLOSE), Lit("]"), Lit(STRONG_CLOSE),
      Spaces, Lit(P_CLOSE)>>

\* pattern.match(str(para)) for one of the patterns
MatchesAny(patterns, string) ==
    \E n \in 1..Len(patterns) : re_match(patterns[n], string)

\* The 0-based indices of the flagged paragraphs, in the order of the scan.
RECURSIVE ScanFrom(_, _, _, _)
ScanFrom(doc, paras, patterns, k) ==
    IF k > Len(paras) THEN <<>>
    ELSE (IF MatchesAny(patterns, str(doc[paras[k]])) THEN <<PyIndex(k)>> ELSE <<>>)
         \o ScanFrom(doc, paras, patterns, k + 1)

find_siglum_indices(doc, paras) ==
    ScanFrom(doc, paras,
             <<siglum_pattern, siglum_missing_pattern, siglum_with_addendum_pattern,
               siglum_with_addendum_missing_pattern>>, 1)

\* _strip_by_delimiter: split, every part stripped.
_strip_by_delimiter(input_str, delimiter) == StripEach(split(input_str, delimiter))

\* _strip_tag(tag, "p"): the serialisation cut after the first "<p...>",
\* without a closing "</p>" at its end, stripped.  Without any "<p" in it,
\* find() answers -1 and the cut is made after a last character ">".
CutOpening(stripped_str, opening) ==
    IF opening # 0 THEN From(stripped_str, opening + 1)
    ELSE IF stripped_str # <<>> /\ stripped_str[Len(stripped_str)] \in MarkupTags THEN <<>>
    ELSE stripped_str

removesuffix(s, suffix) ==
    IF endswith(s, suffix) THEN Upto(s, Len(s) - Len(suffix)) ELSE s

StripTagOf(stripped_str) ==
    strip(removesuffix(CutOpening(stripped_str, find(stripped_str, <<P_OPEN>>)),
                       <<P_CLOSE>>))

\* str(tag) if tag is not None else ""
TagStr(tag) == IF tag.name = "None" THEN <<>> ELSE str(tag)

_strip_tag(tag) == StripTagOf(TagStr(tag))

\* A label argument: a str, or None.
PyStr(s) == [isNone |-> FALSE, s |-> s]
PyNone == [isNone |-> TRUE, s |-> <<>>]

\* The first paragraph of paras with a text node that matches the label;
\* NoTag for a label that is None or empty and when none matches.
LastPara(paras, hits) == IF hits = {} THEN NoTag ELSE paras[MaxOf(hits)]

FirstPara(paras, hits) == IF hits = {} THEN NoTag ELSE paras[MinOf(hits)]

_find_tag_with_label_in_soup(doc, label, paras) ==
    IF label.isNone \/ label.s = <<>> THEN NoTag
    ELSE FirstPara(paras, {k \in 1..Len(paras) : find_string(doc[paras[k]], label.s)})

\* paras.index(tag_with_label): the first paragraph equal to the tag (tags
\* compare by name and contents); -1 on ValueError.
FirstIndex(equal) == IF equal = {} THEN -1 ELSE PyIndex(MinOf(equal))

ListIndex(doc, paras, tag) ==
    IF tag = NoTag THEN -1
    ELSE FirstIndex({k \in 1..Len(paras) : doc[paras[k]] = doc[tag]})

_get_paragraph_index_by_label(doc, label, paras) ==
    ListIndex(doc, paras, _find_tag_with_label_in_soup(doc, label, paras))

DOT == "."
SEMICOLON == ";"
COMMA == ","

\* content.strip().rstrip(DOT).rstrip(SEMICOLON)
StripPunctuation(content) == rstrip(rstrip(strip(content), {DOT}), {SEMICOLON})

\* The while loop over the siblings of the label's paragraph.
RECURSIVE sibling_lines(_, _)
SiblingLine(doc, sibling, sibling_content) ==
    IF endswith(sibling_content, <<DOT>>)
        THEN <<StripPunctuation(sibling_content)>>
    ELSE IF endswith(sibling_content, <<SEMICOLON>>)
        THEN <<StripPunctuation(sibling_content)>>
             \o sibling_lines(doc, next_sibling(doc, sibling))
    ELSE <<>>
sibling_lines(doc, sibling) ==
    IF sibling = NoTag \/ doc[sibling].name # "p" THEN <<>>
    ELSE SiblingLine(doc, sibling, _strip_tag(doc[sibling]))

ContentLines(doc, content_paragraph, initial_content) ==
    IF endswith(initial_content, <<SEMICOLON>>)
    THEN <<StripPunctuation(initial_content)>>
         \o sibling_lines(doc, next_sibling(doc, content_paragraph))
    ELSE <<StripPunctuation(initial_content)>>

\* The content of an absent label as one empty string.
ContentOrEmptyString(doc, label, content_paragraph) ==
    IF content_paragraph = NoTag THEN <<<<>>>>
    ELSE ContentLines(doc, content_paragraph,
                      _strip_by_delimiter(_strip_tag(doc[content_paragraph]), label)[2])

ContentOf(doc, label, content_paragraph) ==
    IF content_paragraph = NoTag THEN <<>>
    ELSE ContentLines(doc, content_paragraph,
                      _strip_by_delimiter(_strip_tag(doc[content_paragraph]), label)[2])

_get_paragraph_content_by_label(doc, label, paras) ==
    ContentOf(doc, label, _find_tag_with_label_in_soup(doc, PyStr(label), paras))

\* _extract_writing_instruments(content[0])
RStripDotEach(strings) == [k \in 1..Len(strings) |-> rstrip(strip(strings[k]), {DOT})]

WritingInstrumentsOf(stripped_writing_instruments) ==
    [main |-> rstrip(strip(stripped_writing_instruments[1]), {DOT}),
     secondary |->
        IF Len(stripped_writing_instruments) > 1
        THEN RStripDotEach(_strip_by_delimiter(stripped_writing_instruments[2], <<COMMA>>))
        ELSE <<>>]

_extract_writing_instruments(writing_instruments_text) ==
    WritingInstrumentsOf(_strip_by_delimiter(writing_instruments_text, <<SEMICOLON>>))

\* _get_siglum: the first <sup> of paras[0] is read and then extracted from
\* the paragraph (the document is changed); the siglum is the text left.
\* paras is not empty.
ExtractSup(inner, sup_at, sup_end) ==
    IF sup_at = 0 THEN inner
    ELSE Upto(inner, sup_at - 1) \o <<NODE_SEAM>> \o From(inner, sup_end + 1)

SiglumOf(doc, para, inner, sup_at, sup_end) ==
    [siglum |-> get_text_strip(ExtractSup(inner, sup_at, sup_end)),
     siglum_addendum |->
        IF sup_at = 0 THEN <<>>
        ELSE get_text_strip(SubSeq(inner, sup_at + 1, sup_end - 1)),
     doc |-> [doc EXCEPT ![para].inner = ExtractSup(inner, sup_at, sup_end)]]

SupOf(doc, para, inner, sup_at) ==
    SiglumOf(doc, para, inner, sup_at,
             sup_at + find(From(inner, sup_at + 1), <<SUP_CLOSE>>))

_get_siglum(doc, paras) ==
    SupOf(doc, paras[1], doc[paras[1]].inner, find(doc[paras[1]].inner, <<SUP_OPEN>>))

Beschreibstoff == <<"B","e","s","c","h","r","e","i","b","s","t","o","f","f",":">>
Schreibstoff == <<"S","c","h","r","e","i","b","s","t","o","f","f",":">>
Titel == <<"T","i","t","e","l",":">>
Datierung == <<"D","a","t","i","e","r","u","n","g",":">>
Paginierung == <<"P","a","g","i","n","i","e","r","u","n","g",":">>
Taktzahlen == <<"T","a","k","t","z","a","h","l","e","n",":">>
Besetzung == <<"B","e","s","e","t","z","u","n","g",":">>
Eintragungen == <<"E","i","n","t","r","a","g","u","n","g","e","n",":">>

----------------------------------------------------------------------------
(* The content section: items, folios, systems (utils_helper.py) *)

FOLIO_STR == <<"B","l",".">>
M_SIGLE == <<"M"," ">>
M_STAR_SIGLE == <<"M","*"," ">>
MEASURE_STR == <<"T",".">>
PAGE_STR == <<"S",".">>
ROWTABLE_SHEET_ID == <<"S","k","R","T">>
STAR_STR == <<"s","t","a","r">>
SYSTEM_STR == <<"S","y","s","t","e","m">>
COLON == ":"
PARENTHESIS == "("
SLASH == "/"
STAR == "*"
UNDERSCORE == "_"
TAB == "\t"

\* str.join
RECURSIVE join(_, _)
join(sep, strings) ==
    IF Len(strings) <= 1 THEN Concat(strings)
    ELSE Head(strings) \o sep \o join(sep, Tail(strings))

\* str.replace(old, new), old not empty
replace(s, old, new) == join(new, split(s, old))

\* str.lstrip(chars): the longest prefix made of chars removed.
LStripTo(s, keep) == IF keep = {} THEN <<>> ELSE From(s, MinOf(keep))
lstrip(s, chars) == LStripTo(s, {i \in 1..Len(s) : s[i] \notin chars})

\* str.lower(), letter by letter
LowerOf ==
    [c \in UpperCase |->
        CASE c = "A" -> "a" [] c = "B" -> "b" [] c = "C" -> "c" [] c = "D" -> "d"
          [] c = "E" -> "e" [] c = "F" -> "f" [] c = "G" -> "g" [] c = "H" -> "h"
          [] c = "I" -> "i" [] c = "J" -> "j" [] c = "K" -> "k" [] c = "L" -> "l"
          [] c = "M" -> "m" [] c = "N" -> "n" [] c = "O" -> "o" [] c = "P" -> "p"
          [] c = "Q" -> "q" [] c = "R" -> "r" [] c = "S" -> "s" [] c = "T" -> "t"
          [] c = "U" -> "u" [] c = "V" -> "v" [] c = "W" -> "w" [] c = "X" -> "x"
          [] c = "Y" -> "y" [] c = "Z" -> "z"]
lower(s) == [k \in 1..Len(s) |-> IF s[k] \in UpperCase THEN LowerOf[s[k]] ELSE s[k]]

\* The row pattern
\*   ([A-Z]{1,2})([a-z]{1,3})(\s[(](\d{1,2}|[I,V,X,L]{1,7})[)])?
\* searched in a string: the leftmost match, its quantifiers greedy.
RowNumberChars == {"I", ",", "V", "X", "L"}

IsAt(s, i, S) == i <= Len(s) /\ s[i] \in S

\* The lengths n of a group (\d{1,2}|[I,V,X,L]{1,7}) that opens at j + 2,
\* after whitespace and "(" at j, and is closed by ")".
RowNumberLengths(s, j) ==
    {n \in 1..7 :
        /\ IsAt(s, j, Whitespace) /\ IsAt(s, j + 1, {"("}) /\ IsAt(s, j + 2 + n, {")"})
        /\ \/ n <= 2 /\ \A k \in (j + 2)..(j + 1 + n) : s[k] \in Digits
           \/ \A k \in (j + 2)..(j + 1 + n) : s[k] \in RowNumberChars}

RowNumber(s, j, lengths) ==
    IF lengths = {} THEN <<>> ELSE SubSeq(s, j + 2, j + 1 + MinOf(lengths))

RowBase(s, i, t, b) ==
    [rowType |-> SubSeq(s, i, i + t - 1),
     rowBase |-> SubSeq(s, i + t, i + t + b - 1),
     rowNumber |-> RowNumber(s, i + t + b, RowNumberLengths(s, i + t + b))]

RowType(s, i, t) ==
    RowBase(s, i, t, MaxOf({b \in 1..3 : \A k \in (i + t)..(i + t + b - 1) :
                                            IsAt(s, k, LowerCase)}))

RowAt(s, i) ==
    RowType(s, i, IF IsAt(s, i + 1, UpperCase) /\ IsAt(s, i + 2, LowerCase) THEN 2 ELSE 1)

\* re.search(pattern, s): the starts of a match; re.findall(pattern, s)[0]
RowStarts(s) ==
    {i \in 1..Len(s) :
        /\ s[i] \in UpperCase
        /\ \/ IsAt(s, i + 1, LowerCase)
           \/ IsAt(s, i + 1, UpperCase) /\ IsAt(s, i + 2, LowerCase)}

\* A system: the keys of defaultSystem; row holds the row when the key is set.
defaultSystem == [system |-> <<>>, measure |-> <<>>, linkTo |-> <<>>, row |-> <<>>]

\* stripped_system_text[1] without a measure marker: the row, when one is found
SystemWithRow(system, value, starts) ==
    IF starts = {} THEN system
    ELSE [system EXCEPT !.row = <<RowAt(value, MinOf(starts))>>]

\* stripped_system_text = _strip_by_delimiter(para, COLON); no system is
\* made of a segment without a colon.
\* The row looked for in a value with a measure marker as well.
SystemOfRowFirst(system, stripped_system_text) ==
    IF Len(stripped_system_text) = 1 THEN <<>>
    ELSE <<SystemWithRow(system, stripped_system_text[2], RowStarts(stripped_system_text[2]))>>

SystemOf(system, stripped_system_text) ==
    IF Len(stripped_system_text) = 1 THEN <<>>
    ELSE IF contains(stripped_system_text[2], MEASURE_STR)
    THEN <<[system EXCEPT !.measure =
                strip(rstrip(lstrip(stripped_system_text[2], {"T", "."}), {".", ";"}))]>>
    ELSE <<SystemWithRow(system, stripped_system_text[2], RowStarts(stripped_system_text[2]))>>

SystemLabelled(stripped_system_text) ==
    SystemOf([defaultSystem EXCEPT
                 !.system = strip(replace(stripped_system_text[1], SYSTEM_STR, <<>>))],
             stripped_system_text)

\* One segment of the paragraph: nothing for a folio or page label and for a
\* segment without the system marker.
SystemsOfSegment(para) ==
    IF contains(para, FOLIO_STR) \/ contains(para, PAGE_STR) THEN <<>>
    ELSE IF contains(para, SYSTEM_STR)
    THEN SystemLabelled(_strip_by_delimiter(para, <<COLON>>))
    ELSE <<>>

RECURSIVE _get_system_group(_)
_get_system_group(stripped_para_text) ==
    IF stripped_para_text = <<>> THEN <<>>
    ELSE SystemsOfSegment(Head(stripped_para_text))
         \o _get_system_group(Tail(stripped_para_text))

\* _get_folio_label: the marker taken out of the label's segment; a page
\* marker in the segment decides over a folio marker.
process_text(text_, string) ==
    strip(replace(strip(replace(lstrip(text_, {TAB}), string \o <<NBSP>>, <<>>)),
                  string, <<>>))

_get_folio_label(stripped_para_text) ==
    IF contains(stripped_para_text, PAGE_STR)
        THEN process_text(stripped_para_text, PAGE_STR)
    ELSE IF contains(stripped_para_text, FOLIO_STR)
        THEN process_text(stripped_para_text, FOLIO_STR)
    ELSE <<>>

\* The segments of a sibling paragraph: split at " \t" when that gives two
\* segments, at "\t" otherwise.
\* The segments without the second split.
SegmentsAtSpaceTab(para_text, at_space_tab) == at_space_tab

SegmentsOf(para_text, at_space_tab) ==
    IF Len(at_space_tab) = 2 THEN at_space_tab
    ELSE _strip_by_delimiter(para_text, <<TAB>>)

\* re.search(FOLIO_STR, para.text): "Bl" and one more character of the line
folio_found(para_text) ==
    \E i \in 1..(Len(para_text) - 2) :
        para_text[i] = "B" /\ para_text[i + 1] = "l" /\ para_text[i + 2] # "\n"

\* re.search(r"S\.", para.text)
page_found(para_text) == contains(para_text, PAGE_STR)

HasMarker(segment) == contains(segment, FOLIO_STR) \/ contains(segment, PAGE_STR)

FolioLabelOf(stripped_para_text) ==
    IF HasMarker(stripped_para_text[1])
        THEN _get_folio_label(strip(stripped_para_text[1]))
    ELSE IF Len(stripped_para_text) > 2 /\ HasMarker(stripped_para_text[2])
        THEN _get_folio_label(strip(stripped_para_text[2]))
    ELSE <<>>

\* A folio: the keys of defaultFolio; isPage is a key of a page only.
NewFolio(stripped_para_text, is_page, has_system) ==
    [folio |-> FolioLabelOf(stripped_para_text),
     isPage |-> is_page,
     folioLinkTo |-> <<>>,
     folioDescription |-> IF has_system THEN <<>> ELSE strip(stripped_para_text[2]),
     systemGroups |-> IF has_system THEN <<_get_system_group(stripped_para_text)>>
                      ELSE <<>>]

\* _get_folios, paragraph by paragraph: [exc, folios].  A paragraph with a
\* folio or page marker opens a folio; one with the system marker alone adds
\* a group to the folio opened last, the local variable folio, which is
\* unbound before the first folio.
RECURSIVE FoliosFrom(_, _, _, _)
FolioStep(doc, sibling_paras, k, folios, para_text, stripped_para_text, has_system) ==
    IF folio_found(para_text) \/ page_found(para_text)
    THEN IF ~has_system /\ Len(stripped_para_text) < 2
         THEN [exc |-> "IndexError", folios |-> folios]
         ELSE FoliosFrom(doc, sibling_paras, k + 1,
                         Append(folios, NewFolio(stripped_para_text,
                                                 page_found(para_text), has_system)))
    ELSE IF has_system
    THEN IF folios = <<>>
         THEN [exc |-> "UnboundLocalError", folios |-> folios]
         ELSE FoliosFrom(doc, sibling_paras, k + 1,
                         [folios EXCEPT ![Len(folios)].systemGroups =
                              Append(@, _get_system_group(stripped_para_text))])
    ELSE FoliosFrom(doc, sibling_paras, k + 1, folios)

FolioPara(doc, sibling_paras, k, folios, para, para_text) ==
    FolioStep(doc, sibling_paras, k, folios, para_text,
              SegmentsOf(para_text, _strip_by_delimiter(para_text, <<" ", TAB>>)),
              find_string(para, SYSTEM_STR))

FoliosFrom(doc, sibling_paras, k, folios) ==
    IF k > Len(sibling_paras) THEN [exc |-> "", folios |-> folios]
    ELSE FolioPara(doc, sibling_paras, k, folios, doc[sibling_paras[k]],
                   text(doc[sibling_paras[k]]))

_get_folios(doc, sibling_paras) == FoliosFrom(doc, sibling_paras, 1, <<>>)

\* para_content.find(STRONG_TAG) as a condition: str.find answers the index
\* of "strong" in the string, -1 when it is absent; the condition is false
\* for the index 0 alone, a content that starts with the letters "strong".
str_find_strong(para_content) ==
    ~startswith(para_content, <<"s","t","r","o","n","g">>)

\* itemLinkTo of a label
SheetId(item_label) ==
    replace(replace(replace(item_label, <<" ">>, <<UNDERSCORE>>),
                    <<DOT>>, <<UNDERSCORE>>),
            <<STAR>>, STAR_STR)

ComplexId(tokens) == lower(Concat(SubSeq(tokens, 1, MinOf({2, Len(tokens)}))))

\* The link without the row-table sheet.
ItemLinkToOwnSheet(item_label, sheet_id) ==
    [complexId |-> ComplexId(split(sheet_id, <<UNDERSCORE>>)), sheetId |-> sheet_id]

ItemLinkTo(item_label, sheet_id) ==
    [complexId |-> ComplexId(split(sheet_id, <<UNDERSCORE>>)),
     sheetId |-> IF find(item_label, <<SLASH>>) # 0 THEN ROWTABLE_SHEET_ID
                 ELSE sheet_id]

\* A content item: the keys of defaultContentItem; itemLinkTo holds the link
\* when the dictionary is not empty.
defaultContentItem ==
    [item |-> <<>>, itemLinkTo |-> <<>>, itemDescription |-> <<>>, folios |-> <<>>]

PotentialError(para_content) ==
    [line |-> "--- Potential error? Strong tag found in para:", para |-> para_content]

\* The item of a paragraph that starts with a sketch sigle: IndexError when
\* the content has no opening parenthesis.
SketchItem(item_label, stripped_content) ==
    IF Len(stripped_content) < 2 THEN [exc |-> "IndexError", printed |-> <<>>]
    ELSE [exc |-> "",
          printed |-> <<>>,
          item |-> [defaultContentItem EXCEPT
                       !.item = item_label,
                       !.itemLinkTo = <<ItemLinkTo(item_label, SheetId(item_label))>>,
                       !.itemDescription =
                            <<PARENTHESIS>> \o rstrip(strip(stripped_content[2]), {COLON})]]

ItemOf(para_content, para_text) ==
    IF str_find_strong(para_content)
       /\ (startswith(para_text, M_SIGLE) \/ startswith(para_text, M_STAR_SIGLE))
    THEN SketchItem(strip(_strip_by_delimiter(para_text, <<PARENTHESIS>>)[1]),
                    _strip_by_delimiter(para_content, <<PARENTHESIS>>))
    ELSE IF str_find_strong(para_content)
    THEN [exc |-> "", printed |-> <<PotentialError(para_content)>>,
          item |-> defaultContentItem]
    ELSE [exc |-> "", printed |-> <<>>,
          item |-> [defaultContentItem EXCEPT
                       !.itemDescription = rstrip(strip(para_content), {COLON})]]

_get_item(para) == ItemOf(_strip_tag(para), text(para))

\* _find_siblings: [exc, paras].  The walk ends before a sibling with a
\* <strong> element and after one that ends with a full stop; at the end of
\* the document the sibling is None.
RECURSIVE _find_siblings(_, _, _)
_find_siblings(doc, sibling_para, paras) ==
    IF sibling_para = NoTag THEN [exc |-> "AttributeError", paras |-> paras]
    ELSE IF contains(doc[sibling_para].inner, <<STRONG_OPEN>>)
        THEN [exc |-> "", paras |-> paras]
    ELSE IF endswith(text(doc[sibling_para]), <<DOT>>)
        THEN [exc |-> "", paras |-> Append(paras, sibling_para)]
    ELSE _find_siblings(doc, next_sibling(doc, sibling_para), Append(paras, sibling_para))

\* _get_items, paragraph by paragraph: [exc, printed, items]
RECURSIVE ItemsFrom(_, _, _, _, _)
ItemWithFolios(doc, paras, k, printed, items, got, folios) ==
    IF folios.exc # "" THEN [exc |-> folios.exc, printed |-> printed, items |-> items]
    ELSE ItemsFrom(doc, paras, k + 1, printed,
                   Append(items, [got.item EXCEPT !.folios = folios.folios]))

ItemWithSiblings(doc, paras, k, printed, items, got, siblings) ==
    IF siblings.exc # "" THEN [exc |-> siblings.exc, printed |-> printed, items |-> items]
    ELSE ItemWithFolios(doc, paras, k, printed, items, got,
                        _get_folios(doc, siblings.paras))

ItemFound(doc, paras, k, printed, items, got) ==
    IF got.exc # "" THEN [exc |-> got.exc, printed |-> printed, items |-> items]
    ELSE ItemWithSiblings(doc, paras, k, printed \o got.printed, items, got,
                          _find_siblings(doc, next_sibling(doc, paras[k]), <<>>))

ItemPara(doc, paras, k, printed, items, para_text) ==
    IF ~startswith(para_text, <<TAB>>) /\ ~startswith(para_text, PAGE_STR)
       /\ ~startswith(para_text, FOLIO_STR)
    THEN ItemFound(doc, paras, k, printed, items, _get_item(doc[paras[k]]))
    ELSE ItemsFrom(doc, paras, k + 1, printed, items)

ItemsFrom(doc, paras, k, printed, items) ==
    IF k > Len(paras) THEN [exc |-> "", printed |-> printed, items |-> items]
    ELSE ItemPara(doc, paras, k, printed, items, text(doc[paras[k]]))

_get_items(doc, paras) == ItemsFrom(doc, paras, 1, <<>>, <<>>)

Inhalt == <<"I","n","h","a","l","t",":">>

description_labels ==
    {Beschreibstoff, Schreibstoff, Titel, Datierung, Paginierung, Taktzahlen,
     Besetzung, Eintragungen}

\* _get_content_items of utils.py, for a slice without an "Inhalt:"
\* paragraph: the message is printed and the list is empty.
NoContentFound(source_id) == [line |-> "No content found for", id |-> source_id]

ContentItemsAt(content_index, source_id) ==
    CASE content_index = -1 -> [printed |-> <<NoContentFound(source_id)>>, items |-> <<>>]

Textkritischer_Kommentar ==
    <<"T","e","x","t","k","r","i","t","i","s","c","h","e","r"," ","K","o","m","m","e","n","t","a","r",":">>
Textkritische_Anmerkungen ==
    <<"T","e","x","t","k","r","i","t","i","s","c","h","e"," ","A","n","m","e","r","k","u","n","g","e","n",":">>

\* The index of the first comments label found; the last paragraph's without.
CommentsIndex(kommentar_index, anmerkungen_index, last_index) ==
    IF kommentar_index # -1 THEN kommentar_index
    ELSE IF anmerkungen_index # -1 THEN anmerkungen_index
    ELSE last_index

comments_index(doc, paras) ==
    CommentsIndex(_get_paragraph_index_by_label(doc, PyStr(Textkritischer_Kommentar), paras),
                  _get_paragraph_index_by_label(doc, PyStr(Textkritische_Anmerkungen), paras),
                  Len(paras) - 1)

\* _get_content_items: [exc, printed, items], the items of
\* paras[(content_index + 1):comments_index]
ContentItems(doc, paras, content_index, source_id) ==
    IF content_index = -1
    THEN [exc |-> "", printed |-> <<NoContentFound(source_id)>>, items |-> <<>>]
    ELSE _get_items(doc, SubSeq(paras, content_index + 2, comments_index(doc, paras)))

_get_content_items(doc, paras, source_id) ==
    ContentItems(doc, paras, _get_paragraph_index_by_label(doc, PyStr(Inhalt), paras),
                 source_id)

\* _get_description: the keys of defaultDescription, filled label by label.
\* IndexError when the slice has no paras[3].
DescriptionOf(desc, content, contents) ==
    [exc |-> contents.exc,
     printed |-> contents.printed,
     desc |-> <<desc>>,
     writingMaterialStrings |-> content[Beschreibstoff],
     writingInstruments |->
        IF content[Schreibstoff] # <<>>
        THEN _extract_writing_instruments(content[Schreibstoff][1])
        ELSE [main |-> <<>>, secondary |-> <<>>],
     titles |-> content[Titel],
     dates |-> content[Datierung],
     paginations |-> content[Paginierung],
     measureNumbers |-> content[Taktzahlen],
     instrumentations |-> content[Besetzung],
     annotations |-> content[Eintragungen],
     contents |-> contents.items]

_get_description(doc, paras, source_id) ==
    IF Len(paras) < 4 THEN [exc |-> "IndexError"]
    ELSE DescriptionOf(_strip_tag(doc[paras[4]]),
                       [label \in description_labels |->
                            _get_paragraph_content_by_label(doc, label, paras)],
                       _get_content_items(doc, paras, source_id))

SOURCE_PREFIX == <<"s","o","u","r","c","e","_">>

\* create_source_description: [exc, doc, ret].  The record's keys are listed
\* in their dictionary order; "missing" is a key of the record only when the
\* siglum was bracketed.
SourceDescriptionOf(doc, paras, siglum, siglum_addendum, bracketed, source_id, description) ==
    IF Len(paras) < 3 THEN [exc |-> "IndexError", doc |-> doc]
    ELSE IF description.exc # "" THEN [exc |-> description.exc, doc |-> doc]
    ELSE [exc |-> "",
          doc |-> doc,
          printed |-> description.printed,
          ret |-> [keys |-> IF bracketed
                            THEN <<"id", "siglum", "siglumAddendum", "missing",
                                   "type", "location", "description">>
                            ELSE <<"id", "siglum", "siglumAddendum",
                                   "type", "location", "description">>,
                   id |-> source_id,
                   siglum |-> siglum,
                   siglumAddendum |-> siglum_addendum,
                   missing |-> bracketed,
                   type |-> _strip_tag(doc[paras[2]]),
                   location |-> _strip_tag(doc[paras[3]]),
                   description |-> [key \in DOMAIN description \ {"exc", "printed"} |->
                                        description[key]]]]

SourceId(siglum_string) ==
    IF siglum_string # <<>> THEN SOURCE_PREFIX \o siglum_string ELSE <<>>

WithId(doc, paras, siglum, siglum_addendum, bracketed, source_id) ==
    SourceDescriptionOf(doc, paras, siglum, siglum_addendum, bracketed, source_id,
                        _get_description(doc, paras, source_id))

Unbracketed(doc, paras, siglum, siglum_addendum, bracketed) ==
    WithId(doc, paras, siglum, siglum_addendum, bracketed,
           SourceId(siglum \o siglum_addendum))

\* The siglum stored as it is read, with its brackets.
WithSiglumAsRead(paras, got, bracketed) ==
    Unbracketed(got.doc, paras, got.siglum, got.siglum_addendum, bracketed)

WithSiglum(paras, got, bracketed) ==
    Unbracketed(got.doc, paras,
                IF bracketed THEN SubSeq(got.siglum, 2, Len(got.siglum) - 1)
                ELSE got.siglum,
                got.siglum_addendum, bracketed)

Bracketed(paras, got) ==
    WithSiglum(paras, got,
               startswith(got.siglum, <<"[">>) /\ endswith(got.siglum, <<"]">>))

create_source_description(doc, paras) == Bracketed(paras, _get_siglum(doc, paras))

----------------------------------------------------------------------------
(* utils.py: the module-level functions behind ConversionUtils.              *)
(* _get_siglum, _strip_by_delimiter, _find_tag_with_label_in_soup,           *)
(* _get_paragraph_index_by_label and _extract_writing_instruments read the   *)
(* same in utils.py and in utils_helper.py; the ones that differ follow.     *)

\* The pattern of a capital letter, bold or not.
_siglum_pattern_on_text == <<Lit(P_OPEN), Class(UpperCase), Lit(P_CLOSE)>>

\* r'^<p><strong>([A-Z])</strong></p>$' and its three variants
_siglum_pattern ==
    <<Lit(P_OPEN), Lit(STRONG_OPEN), Class(UpperCase), Lit(STRONG_CLOSE), Lit(P_CLOSE)>>

_siglum_missing_pattern ==
    <<Lit(P_OPEN), Lit(STRONG_OPEN), Lit("["), Class(UpperCase), Lit("]"),
      Lit(STRONG_CLOSE), Lit(P_CLOSE)>>

_siglum_with_addendum_pattern ==
    <<Lit(P_OPEN), Lit(STRONG_OPEN), Class(UpperCase), Lit(SUP_OPEN), AddendumGroup,
      Lit(SUP_CLOSE), Lit(STRONG_CLOSE), Lit(P_CLOSE)>>

_siglum_with_addendum_missing_pattern ==
    <<Lit(P_OPEN), Lit(STRONG_OPEN), Lit("["), Class(UpperCase), Lit(SUP_OPEN),
      AddendumGroup, Lit(SUP_CLOSE), Lit("]"), Lit(STRONG_CLOSE), Lit(P_CLOSE)>>

_find_siglum_indices(doc, paras) ==
    ScanFrom(doc, paras,
             <<_siglum_pattern, _siglum_missing_pattern, _siglum_with_addendum_pattern,
               _siglum_with_addendum_missing_pattern>>, 1)

\* _strip_tag of utils.py: removeprefix("<p>"), removesuffix("</p>"), strip.
removeprefix(s, prefix) ==
    IF startswith(s, prefix) THEN From(s, Len(prefix) + 1) ELSE s

_strip_tag_utils(tag) ==
    strip(removesuffix(removeprefix(TagStr(tag), <<P_OPEN>>), <<P_CLOSE>>))

\* _get_paragraph_content_by_label of utils.py: one string, the lines of the
\* following paragraphs joined with '<br />', stripped at the end only.
BR == "<br />"

RECURSIVE sibling_content_utils(_, _)
SiblingContentUtils(doc, sibling, sibling_content) ==
    IF endswith(sibling_content, <<DOT>>) THEN <<BR>> \o sibling_content
    ELSE IF endswith(sibling_content, <<SEMICOLON>>)
        THEN <<BR>> \o sibling_content
             \o sibling_content_utils(doc, next_sibling(doc, sibling))
    ELSE <<>>
sibling_content_utils(doc, sibling) ==
    IF sibling = NoTag \/ doc[sibling].name # "p" THEN <<>>
    ELSE SiblingContentUtils(doc, sibling, _strip_tag_utils(doc[sibling]))

ContentStringUtils(doc, content_paragraph, content) ==
    IF endswith(content, <<SEMICOLON>>)
    THEN strip(content \o sibling_content_utils(doc, next_sibling(doc, content_paragraph)))
    ELSE strip(content)

ContentOfUtils(doc, label, content_paragraph) ==
    IF content_paragraph = NoTag THEN <<>>
    ELSE ContentStringUtils(doc, content_paragraph,
            _strip_by_delimiter(_strip_tag_utils(doc[content_paragraph]), label)[2])

_get_paragraph_content_by_label_utils(doc, label, paras) ==
    ContentOfUtils(doc, label, _find_tag_with_label_in_soup(doc, PyStr(label), paras))

\* _get_content_items of utils.py, for a slice without an "Inhalt:" paragraph.
_get_content_items_utils(doc, paras, source_id) ==
    ContentItemsAt(_get_paragraph_index_by_label(doc, PyStr(Inhalt), paras), source_id)

\* _get_description of utils.py: the keys of emptyDescription; every labelled
\* field is one string.  IndexError when the slice has no paras[3].
DescriptionOfUtils(desc, content, contents) ==
    [exc |-> "",
     printed |-> contents.printed,
     desc |-> <<desc>>,
     writingMaterialString |-> content[Beschreibstoff],
     writingInstruments |-> _extract_writing_instruments(content[Schreibstoff]),
     title |-> content[Titel],
     date |-> content[Datierung],
     pagination |-> content[Paginierung],
     measureNumbers |-> content[Taktzahlen],
     instrumentation |-> content[Besetzung],
     annotations |-> content[Eintragungen],
     content |-> contents.items]

_get_description_utils(doc, paras, source_id) ==
    IF Len(paras) < 4 THEN [exc |-> "IndexError"]
    ELSE DescriptionOfUtils(_strip_tag_utils(doc[paras[4]]),
                            [label \in description_labels |->
                                 _get_paragraph_content_by_label_utils(doc, label, paras)],
                            _get_content_items_utils(doc, paras, source_id))

\* _create_source_description of utils.py: [exc, doc, printed, ret].
\* IndexError when the slice has no paras[1] or no paras[2].
SourceDescriptionOfUtils(doc, paras, siglum, siglum_addendum, bracketed, source_id, description) ==
    IF Len(paras) < 3 \/ description.exc # ""
    THEN [exc |-> "IndexError", doc |-> doc]
    ELSE [exc |-> "",
          doc |-> doc,
          printed |-> description.printed,
          ret |-> [keys |-> IF bracketed
                            THEN <<"id", "siglum", "siglumAddendum", "missing",
                                   "type", "location", "description">>
                            ELSE <<"id", "siglum", "siglumAddendum",
                                   "type", "location", "description">>,
                   id |-> source_id,
                   siglum |-> siglum,
                   siglumAddendum |-> siglum_addendum,
                   missing |-> bracketed,
                   type |-> _strip_tag_utils(doc[paras[2]]),
                   location |-> _strip_tag_utils(doc[paras[3]]),
                   description |-> [key \in DOMAIN description \ {"exc", "printed"} |->
                                        description[key]]]]

WithIdUtils(doc, paras, siglum, siglum_addendum, bracketed, source_id) ==
    SourceDescriptionOfUtils(doc, paras, siglum, siglum_addendum, bracketed, source_id,
                             _get_description_utils(doc, paras, source_id))

UnbracketedUtils(doc, paras, siglum, siglum_addendum, bracketed) ==
    WithIdUtils(doc, paras, siglum, siglum_addendum, bracketed,
                SourceId(siglum \o siglum_addendum))

WithSiglumUtils(paras, got, bracketed) ==
    UnbracketedUtils(got.doc, paras,
                     IF bracketed THEN SubSeq(got.siglum, 2, Len(got.siglum) - 1)
                     ELSE got.siglum,
                     got.siglum_addendum, bracketed)

BracketedUtils(paras, got) ==
    WithSiglumUtils(paras, got,
                    startswith(got.siglum, <<"[">>) /\ endswith(got.siglum, <<"]">>))

_create_source_description(doc, paras) == BracketedUtils(paras, _get_siglum(doc, paras))

----------------------------------------------------------------------------
(* utils.py: ConversionUtils.create_source_list *)

\* The last partition without the last paragraph.
next_siglum_index_or_last(indices, i, paras) ==
    IF i < Len(indices) THEN indices[i + 1] ELSE Len(paras) - 1

\* next_siglum_index of the loop pass at position i of siglum_indices.
next_siglum_index(indices, i, paras) ==
    IF i < Len(indices) THEN indices[i + 1] ELSE Len(paras)

\* paras[current_siglum_index:next_siglum_index]
Slice(paras, current_siglum_index, next_index) ==
    SubSeq(paras, current_siglum_index + 1, next_index)

filtered_paras(doc, indices, i) ==
    Slice(find_all_p(doc), indices[i], next_siglum_index(indices, i, find_all_p(doc)))

\* The sources compared by their siglum.
HasSourceWithSiglum(list, source_id) == \E k \in 1..Len(list) : list[k].siglum = source_id

\* next(source for source in sources if source['id'] == source_id) finds one.
HasSource(list, source_id) == \E k \in 1..Len(list) : list[k].id = source_id

----------------------------------------------------------------------------
(* Documents *)

P(inner) == [name |-> "p", inner |-> inner]

Bold(s) == <<STRONG_OPEN>> \o s \o <<STRONG_CLOSE>>
Sup(s) == <<SUP_OPEN>> \o s \o <<SUP_CLOSE>>
Em(s) == <<EM_OPEN>> \o s \o <<EM_CLOSE>>

\* All sequences over S of length up to n.
RECURSIVE SeqsUpTo(_, _)
Longer(shorter, S) == shorter \cup {Append(d, x) : d \in shorter, x \in S}
SeqsUpTo(S, n) == IF n = 0 THEN {<<>>} ELSE Longer(SeqsUpTo(S, n - 1), S)

\* Paragraphs that open a record, and look-alikes.
HeadParas ==
    {P(Bold(<<"A">>)),
     P(Bold(<<"[", "A", "]">>)),
     P(Bold(<<"A">> \o Sup(<<"c">>))),
     P(Bold(<<" ", "A">>)),
     P(<<"A">>)}

Para_type == P(<<"S", "k", ".">>)
Para_location == P(<<"C", "H">>)
Para_desc == P(<<"1", " ", "B", "l", ".">>)
Para_titel == P(Titel \o <<" ", "a", ".">>)

\* What follows the opening paragraph of a record: the type, the location and
\* the description paragraph, then the labelled ones; or less than that.
Bodies ==
    {<<>>,
     <<Para_type>>,
     <<Para_type, Para_location>>,
     <<Para_type, Para_location, Para_desc>>,
     <<Para_type, Para_location, Para_desc, Para_titel>>}

MaxRecords == 2

RECURSIVE RecordDocs(_)
MoreRecords(shorter) ==
    shorter \cup {d \o <<h>> \o b : d \in shorter, h \in HeadParas, b \in Bodies}
RecordDocs(n) == IF n = 0 THEN {<<>>} ELSE MoreRecords(RecordDocs(n - 1))

\* Paragraphs for the siglum scan: the four shapes, with and without
\* whitespace, and near misses.
ScanParas ==
    {P(Bold(<<"A">>)),
     P(Bold(<<"[", "A", "]">>)),
     P(Bold(<<"A">> \o Sup(<<"c">>))),
     P(Bold(<<"[", "A">> \o Sup(<<"F", "1", EN_DASH, "2">>) \o <<"]">>)),
     P(Bold(<<"A">> \o Sup(<<>>))),
     P(<<" ">> \o Bold(<<"A">>)),
     P(Bold(<<"A", " ">>) \o <<"\n">>),
     P(Bold(<<"A">>) \o <<" ", "x">>),
     P(<<"A">>),
     P(Bold(<<"A", "B">>)),
     P(Bold(<<"G">>) \o Bold(<<"H">>)),
     P(Bold(<<"A">> \o Sup(<<"a", "a">>))),
     P(Bold(<<"[", "A">> \o Sup(<<"c">>) \o <<"]", " ">>)),
     P(Bold(<<"a">>)),
     P(Bold(<<>>))}

MaxScanParas == 3

\* Blocks for the label functions: labelled paragraphs, continuation lines,
\* a label cut in two by inline markup, a label that occurs twice, a table.
LabelBlocks ==
    {P(Titel \o <<" ", "a", ";">>),
     P(Titel \o <<" ", "b", ".">>),
     P(<<"c", ";">>),
     P(<<"d", ".">>),
     P(<<"e">>),
     P(Titel \o <<" ", "f", ".", ";">>),
     P(<<"T", "i", "t">> \o Em(<<"e", "l", ":">>) \o <<" ", "g", ".">>),
     P(Titel \o <<" ", "h", " ">> \o Titel \o <<" ", "i", ".">>),
     [name |-> "table", inner |-> <<"t">>]}

MaxBlocks == 3

\* The opening of a record, before the blocks.
RecordOpening == <<P(Bold(<<"A">>)), Para_type, Para_location, Para_desc>>

NoCall == [fn |-> ""]

InitList ==
    /\ soup \in RecordDocs(MaxRecords)
    /\ pc = "start"
    /\ siglum_indices = <<>>
    /\ loop_i = 0
    /\ sources = <<>>
    /\ stdout = <<>>
    /\ call = NoCall
    /\ NoComparison
    /\ NoTable

----------------------------------------------------------------------------
(* create_source_list, step by step *)

\* paras = soup.find_all('p'); siglum_indices = _find_siglum_indices(paras)
FindSiglumIndices ==
    /\ pc = "start"
    /\ siglum_indices' = _find_siglum_indices(soup, find_all_p(soup))
    /\ loop_i' = 1
    /\ pc' = "loop"
    /\ UNCHANGED <<soup, sources, stdout, call>>
    /\ UNCHANGED <<compare_vars, table_vars>>

\* One pass of the for loop.  The test current_siglum_index <
\* next_siglum_index holds in every pass: the indices increase and are
\* below len(paras).
InLoop ==
    /\ pc = "loop"
    /\ loop_i <= Len(siglum_indices)
    /\ siglum_indices[loop_i]
           < next_siglum_index(siglum_indices, loop_i, find_all_p(soup))

\* The partitions handed to _create_source_description, this pass included.
Handed ==
    [fn |-> "_create_source_description",
     partitions |-> Append(IF call = NoCall THEN <<>> ELSE call.partitions,
                           filtered_paras(soup, siglum_indices, loop_i))]

\* The pass at loop_i, given what _create_source_description did.
\* It raises: the exception leaves create_source_list.
Raises(assembled) ==
    /\ assembled.exc # ""
    /\ soup' = assembled.doc
    /\ pc' = "raised"
    /\ call' = Handed
    /\ UNCHANGED <<siglum_indices, loop_i, sources, stdout>>
    /\ UNCHANGED <<compare_vars, table_vars>>

\* except StopIteration: no source has the id; the record is appended.
Appends(assembled) ==
    /\ assembled.exc = ""
    /\ ~HasSource(sources, assembled.ret.id)
    /\ soup' = assembled.doc
    /\ sources' = Append(sources, assembled.ret)
    /\ stdout' = stdout \o assembled.printed
                    \o <<[line |-> "Appending", id |-> assembled.ret.id]>>
    /\ loop_i' = loop_i + 1
    /\ call' = Handed
    /\ UNCHANGED <<pc, siglum_indices>>
    /\ UNCHANGED <<compare_vars, table_vars>>

\* The record of the duplicate put in the place of the first one.
Overwrites(assembled) ==
    /\ assembled.exc = ""
    /\ HasSource(sources, assembled.ret.id)
    /\ soup' = assembled.doc
    /\ sources' = [k \in 1..Len(sources) |->
                        IF sources[k].id = assembled.ret.id THEN assembled.ret
                        ELSE sources[k]]
    /\ stdout' = stdout \o assembled.printed
                    \o <<[line |-> "Duplication", id |-> assembled.ret.id]>>
    /\ loop_i' = loop_i + 1
    /\ call' = Handed
    /\ UNCHANGED <<pc, siglum_indices>>
    /\ UNCHANGED <<compare_vars, table_vars>>

\* next(...) finds a source with the id: the duplication is printed.
Skips(assembled) ==
    /\ assembled.exc = ""
    /\ HasSource(sources, assembled.ret.id)
    /\ soup' = assembled.doc
    /\ stdout' = stdout \o assembled.printed
                    \o <<[line |-> "Duplication", id |-> assembled.ret.id]>>
    /\ loop_i' = loop_i + 1
    /\ call' = Handed
    /\ UNCHANGED <<pc, siglum_indices, sources>>
    /\ UNCHANGED <<compare_vars, table_vars>>

RaiseInPartition ==
    /\ InLoop
    /\ Raises(_create_source_description(soup, filtered_paras(soup, siglum_indices, loop_i)))

AppendSource ==
    /\ InLoop
    /\ Appends(_create_source_description(soup, filtered_paras(soup, siglum_indices, loop_i)))

SkipDuplicate ==
    /\ InLoop
    /\ Skips(_create_source_description(soup, filtered_paras(soup, siglum_indices, loop_i)))

\* return source_list
ReturnSourceList ==
    /\ pc = "loop"
    /\ loop_i > Len(siglum_indices)
    /\ pc' = "done"
    /\ UNCHANGED <<soup, siglum_indices, loop_i, sources, stdout, call>>
    /\ UNCHANGED <<compare_vars, table_vars>>

Next ==
    \/ FindSiglumIndices
    \/ RaiseInPartition
    \/ AppendSource
    \/ SkipDuplicate
    \/ ReturnSourceList

Spec == InitList /\ [][Next]_vars

----------------------------------------------------------------------------
(* ConversionUtilsHelper.find_siglum_indices, called on a paragraph list *)

InitScan ==
    /\ soup \in SeqsUpTo(ScanParas, MaxScanParas)
    /\ pc = "start"
    /\ siglum_indices = <<>>
    /\ loop_i = 0
    /\ sources = <<>>
    /\ stdout = <<>>
    /\ call = NoCall
    /\ NoComparison
    /\ NoTable

Call_find_siglum_indices ==
    /\ pc = "start"
    /\ call' = [fn |-> "find_siglum_indices",
                ret |-> find_siglum_indices(soup, find_all_p(soup))]
    /\ pc' = "returned"
    /\ UNCHANGED <<soup, siglum_indices, loop_i, sources, stdout>>
    /\ UNCHANGED <<compare_vars, table_vars>>

NextScan == Call_find_siglum_indices

SpecScan == InitScan /\ [][NextScan]_vars

----------------------------------------------------------------------------
(* The label functions and create_source_description of                     *)
(* ConversionUtilsHelper, called on a slice paras[lo:hi] of the paragraphs  *)
(* of a document                                                            *)

LabelArgs == {PyNone, PyStr(<<>>), PyStr(Titel)}

\* The slices start at the opening of the record or inside the blocks.
SliceStarts(paras) == {0} \cup (Len(RecordOpening)..Len(paras))

InitLabel ==
    /\ soup \in {RecordOpening \o blocks : blocks \in SeqsUpTo(LabelBlocks, MaxBlocks)}
    /\ pc = "start"
    /\ siglum_indices = <<>>
    /\ loop_i = 0
    /\ sources = <<>>
    /\ stdout = <<>>
    /\ call = NoCall
    /\ NoComparison
    /\ NoTable

\* The call returns ret and takes the content out of every block.
ReturnsAndExtracts(fn, label, lo, hi, ret) ==
    /\ call' = [fn |-> fn, label |-> label, lo |-> lo, hi |-> hi, ret |-> ret]
    /\ pc' = "returned"
    /\ soup' = [k \in 1..Len(soup) |-> [soup[k] EXCEPT !.inner = <<>>]]
    /\ UNCHANGED <<siglum_indices, loop_i, sources, stdout>>
    /\ UNCHANGED <<compare_vars, table_vars>>

\* The call returns ret and leaves the document as it is.
Returns(fn, label, lo, hi, ret) ==
    /\ call' = [fn |-> fn, label |-> label, lo |-> lo, hi |-> hi, ret |-> ret]
    /\ pc' = "returned"
    /\ UNCHANGED <<soup, siglum_indices, loop_i, sources, stdout>>
    /\ UNCHANGED <<compare_vars, table_vars>>

Call_find_tag_with_label_in_soup ==
    /\ pc = "start"
    /\ \E label \in LabelArgs, lo \in SliceStarts(find_all_p(soup)) :
         \E hi \in lo..Len(find_all_p(soup)) :
            Returns("_find_tag_with_label_in_soup", label, lo, hi,
                    _find_tag_with_label_in_soup(soup, label,
                                                 Slice(find_all_p(soup), lo, hi)))

Call_get_paragraph_index_by_label ==
    /\ pc = "start"
    /\ \E label \in LabelArgs, lo \in SliceStarts(find_all_p(soup)) :
         \E hi \in lo..Len(find_all_p(soup)) :
            Returns("_get_paragraph_index_by_label", label, lo, hi,
                    _get_paragraph_index_by_label(soup, label,
                                                  Slice(find_all_p(soup), lo, hi)))

Call_get_paragraph_content_by_label ==
    /\ pc = "start"
    /\ \E lo \in SliceStarts(find_all_p(soup)) :
         \E hi \in lo..Len(find_all_p(soup)) :
            Returns("_get_paragraph_content_by_label", PyStr(Titel), lo, hi,
                    _get_paragraph_content_by_label(soup, Titel,
                                                    Slice(find_all_p(soup), lo, hi)))

\* _get_paragraph_content_by_label, called once more with the label and the
\* slice of the call that has returned, on the document as that call left it.
Call_get_paragraph_content_by_label_again ==
    /\ pc = "returned"
    /\ call.fn = "_get_paragraph_content_by_label"
    /\ call' = [call EXCEPT !.ret = _get_paragraph_content_by_label(
                                        soup, Titel,
                                        Slice(find_all_p(soup), call.lo, call.hi))]
    /\ pc' = "returned again"
    /\ UNCHANGED <<soup, siglum_indices, loop_i, sources, stdout>>
    /\ UNCHANGED <<compare_vars, table_vars>>

\* create_source_description(paras[0:hi]): the record, or the exception; the
\* superscript of the first paragraph is extracted from the document.
ReturnsRecord(hi, assembled) ==
    /\ call' = [fn |-> "create_source_description", label |-> PyNone,
                lo |-> 0, hi |-> hi, ret |-> assembled]
    /\ soup' = assembled.doc
    /\ pc' = "returned"
    /\ UNCHANGED <<siglum_indices, loop_i, sources, stdout>>
    /\ UNCHANGED <<compare_vars, table_vars>>

Call_create_source_description ==
    /\ pc = "start"
    /\ \E hi \in 1..Len(find_all_p(soup)) :
            ReturnsRecord(hi, create_source_description(soup,
                                  Slice(find_all_p(soup), 0, hi)))

NextLabel ==
    \/ Call_find_tag_with_label_in_soup
    \/ Call_get_paragraph_index_by_label
    \/ Call_get_paragraph_content_by_label
    \/ Call_get_paragraph_content_by_label_again
    \/ Call_create_source_description

SpecLabel == InitLabel /\ [][NextLabel]_vars

----------------------------------------------------------------------------
(* The content parser of ConversionUtilsHelper, called on the paragraphs of *)
(* a record with a content section                                          *)

\* The paragraphs of a record before its content section.
Para_Skizzen == P(<<"S", "k", "i", "z", "z", "e", "n">>)
Para_CH_Bps == P(<<"C", "H", "-", "B", "p", "s">>)
Para_1_Blatt == P(<<"1", " ", "B", "l", "a", "t", "t">>)
Para_Beschreibstoff == P(Beschreibstoff \o <<" ", "N", "o", "t", "e", "n", "p", "a", "p", "i", "e", "r">>)
Para_Inhalt == P(Inhalt)

\* Siglum paragraphs: the four shapes, and one with whitespace.
RecordHeads ==
    {P(Bold(<<"A">>)),
     P(Bold(<<"[", "A", "]">>)),
     P(Bold(<<"A">> \o Sup(<<"c">>))),
     P(Bold(<<"[", "A">> \o Sup(<<"c">>) \o <<"]">>)),
     P(<<" ">> \o Bold(<<" ", "[", "A", "]", " ">>))}

\* A folio line "Bl. f<sep>System s: T. m."
FolioLine(f, sep, s, m) ==
    P(FOLIO_STR \o <<" ">> \o f \o sep \o SYSTEM_STR \o <<" ">> \o s
        \o <<COLON, " ">> \o MEASURE_STR \o <<" ">> \o m \o <<DOT>>)

FolioLines ==
    {FolioLine(<<"1", "r">>, <<TAB>>, <<"1">>, <<"1", "-", "8">>),
     FolioLine(<<"1", "r">>, <<" ">>, <<"1">>, <<"1", "-", "8">>),
     FolioLine(<<"2">>, <<TAB>>, <<"3">>, <<"9">>)}

\* an item in bold with its description
Item_M22 ==
    P(Bold(<<"M", " ", "2", "2">>) \o <<" ", "(", "T", "h", "e", "m", "a", ")", ":">>)

\* the same item without the bold run
Item_M22_plain ==
    P(<<"M", " ", "2", "2", " ", "(", "T", "h", "e", "m", "a", ")", ":">>)

\* a starred item with a dot in its label
Item_star ==
    P(Bold(<<"M", "*", " ", "4", ".", "1">>) \o <<" ", "(", "x", ")", ":">>)

\* two items of a row table
Item_slash ==
    P(Bold(<<"M", "*", " ", "2", " ", "/", " ", "M", " ", "3">>) \o <<" ", "(", "y", ")", ":">>)

\* an item paragraph without an opening parenthesis
Item_no_parenthesis ==
    P(Bold(<<"M", " ", "2", "3">>) \o <<":">>)

\* a paragraph that is no sketch item
Item_other ==
    P(<<"S", "k", ":">>)

\* a folio with a description
Folio_described ==
    P(<<"B", "l", ".", " ", "2", "\t", "l", "e", "e", "r", ";">>)

\* a folio line without a system and without a second segment
Folio_bare ==
    P(<<"B", "l", ".", " ", "3", ";">>)

\* a folio with a measure system and a row system
Folio_two_systems ==
    P(<<"B", "l", ".", " ", "4", "\t", "S", "y", "s", "t", "e", "m", " ", "1", ":", " ", "T", ".", " ", "1", " ", "G", "g", ";", "\t", "S", "y", "s", "t", "e", "m", " ", "2", ":", " ", "G", "g", ".">>)

\* a page with a system
Page_line ==
    P(<<"S", ".", " ", "1", "\t", "S", "y", "s", "t", "e", "m", " ", "1", ":", " ", "T", ".", " ", "2", ";">>)

\* a system line with a row
System_row ==
    P(<<"\t", "S", "y", "s", "t", "e", "m", " ", "2", ":", " ", "G", "g", " ", "(", "1", ")", ".">>)

\* a system line with neither measure nor row
System_plain ==
    P(<<"\t", "S", "y", "s", "t", "e", "m", " ", "3", ":", " ", "1", "2", ";">>)

\* the label that closes the content section
Kommentar ==
    P(Bold(<<"T", "e", "x", "t", "k", "r", "i", "t", "i", "s", "c", "h", "e", "r", " ", "K", "o", "m", "m", "e", "n", "t", "a", "r", ":">>))

ContentParas ==
    FolioLines \cup
    {Item_M22, Item_M22_plain, Item_star, Item_slash, Item_no_parenthesis, Item_other,
     Folio_described, Folio_bare, Folio_two_systems,
     Page_line, System_row, System_plain, Kommentar}

MaxContentParas == 3

ContentOpening(head) ==
    <<head, Para_Skizzen, Para_CH_Bps, Para_1_Blatt, Para_Beschreibstoff, Para_Inhalt>>

\* The records: the example record under every head, and the records of
\* the head "A" with every content section.
ExampleContent ==
    <<Item_M22_plain, FolioLine(<<"1", "r">>, <<TAB>>, <<"1">>, <<"1", "-", "8">>)>>

ContentDocs ==
    {ContentOpening(head) \o ExampleContent : head \in RecordHeads}
    \cup {ContentOpening(P(Bold(<<"A">>))) \o content :
              content \in SeqsUpTo(ContentParas, MaxContentParas)}

InitContent ==
    /\ soup \in ContentDocs
    /\ pc = "start"
    /\ siglum_indices = <<>>
    /\ loop_i = 0
    /\ sources = <<>>
    /\ stdout = <<>>
    /\ call = NoCall
    /\ NoComparison
    /\ NoTable

\* The blocks after "Inhalt:", as positions in the document.
ContentPositions(doc) == (Len(ContentOpening(<<>>)) + 1)..Len(doc)

\* The call on the block soup[k] returns ret and leaves the document as it
\* is.
ReturnsFor(fn, k, ret) ==
    /\ call' = [fn |-> fn, para |-> k, ret |-> ret]
    /\ pc' = "returned"
    /\ UNCHANGED <<soup, siglum_indices, loop_i, sources, stdout>>
    /\ UNCHANGED <<compare_vars, table_vars>>

\* _get_system_group on the segments of a paragraph
Call_get_system_group ==
    /\ pc = "start"
    /\ \E k \in ContentPositions(soup) :
            ReturnsFor("_get_system_group", k,
                       _get_system_group(
                           SegmentsOf(text(soup[k]),
                                      _strip_by_delimiter(text(soup[k]), <<" ", TAB>>))))

\* _get_item on a paragraph
Call_get_item ==
    /\ pc = "start"
    /\ \E k \in ContentPositions(soup) :
            ReturnsFor("_get_item", k, _get_item(soup[k]))

\* _get_folios on the sibling paragraphs that _find_siblings collects after
\* a paragraph
ReturnsFolios(k, siblings) ==
    /\ siblings.exc = ""
    /\ ReturnsFor("_get_folios", k, _get_folios(soup, siblings.paras))

Call_get_folios ==
    /\ pc = "start"
    /\ \E k \in ContentPositions(soup) :
            ReturnsFolios(k, _find_siblings(soup, next_sibling(soup, k), <<>>))

\* create_source_description on all paragraphs of the document
Call_create_source_description_on_record ==
    /\ pc = "start"
    /\ ReturnsRecord(Len(find_all_p(soup)),
                     create_source_description(soup, find_all_p(soup)))

\* create_source_description, called once more on the paragraphs of the call
\* that has returned, as that call left them.
Call_create_source_description_again ==
    /\ pc = "returned"
    /\ call.fn = "create_source_description"
    /\ call' = [call EXCEPT !.ret = create_source_description(
                                        soup, Slice(find_all_p(soup), call.lo, call.hi))]
    /\ soup' = call'.ret.doc
    /\ pc' = "returned again"
    /\ UNCHANGED <<siglum_indices, loop_i, sources, stdout>>
    /\ UNCHANGED <<compare_vars, table_vars>>

NextContent ==
    \/ Call_get_system_group
    \/ Call_get_item
    \/ Call_get_folios
    \/ Call_create_source_description_on_record
    \/ Call_create_source_description_again

SpecContent == InitContent /\ [][NextContent]_vars

----------------------------------------------------------------------------
(* compare_pdfs.py: the pages of two PDFs compared by a pool of threads *)

\* A page is an image of one size and one grey level.
Page(size, gray) == [size |-> size, gray |-> gray]

\* --threshold, by default
threshold == 75

WHITE == 255

\* The pages of the first PDF are white A4 pages; a page of the second is the
\* same, darker by the threshold, darker by more, or of another size.
Pages1 == {Page("A4", WHITE)}

Pages2 ==
    {Page("A4", WHITE), Page("A4", WHITE - threshold),
     Page("A4", WHITE - threshold - 1), Page("A3", WHITE)}

\* Most pages of a PDF
MaxPages == 3

\* cv2.absdiff of two images of one size
absdiff(image1, image2) ==
    IF image1.gray >= image2.gray THEN image1.gray - image2.gray
    ELSE image2.gray - image1.gray

\* highlight_differences(image1, image2, threshold)[1]: a pixel above the
\* threshold makes a contour.
highlight_differences(image1, image2) == absdiff(image1, image2) > threshold

\* range(len(images1))
range(n) == 0..(n - 1)

\* The image at a Python index.
At(images, index) == images[index + 1]

\* compare_page(images1, images2, page_num, ...): the exception of cv2.absdiff
\* for images of two sizes, or the file written and the value returned.
compare_page(page_num) ==
    IF At(images1, page_num - 1).size # At(images2, page_num - 1).size
    THEN [exc |-> "cv2.error", written |-> {}, ret |-> FALSE]
    ELSE [exc |-> "",
          written |-> {page_num},
          ret |-> highlight_differences(At(images1, page_num - 1),
                                        At(images2, page_num - 1))]

RECURSIVE EnumerateFromZero(_, _, _)
\* The indices appended as they are.
EnumerateFromZero(res, i, pages) ==
    IF i = Len(res) THEN pages
    ELSE EnumerateFromZero(res, i + 1,
                           IF At(res, i) THEN Append(pages, i) ELSE pages)

RECURSIVE Enumerate(_, _, _)
\* for i, has_differences in enumerate(results): the pages appended from the
\* index i on.
Enumerate(res, i, pages) ==
    IF i = Len(res) THEN pages
    ELSE Enumerate(res, i + 1,
                   IF At(res, i) THEN Append(pages, i + 1) ELSE pages)

\* The pages appended for the results.
PagesWithChanges(res) == Enumerate(res, 0, <<>>)

\* log_and_write_diff_results: the message written to diff.txt.
Message(pages) ==
    IF pages # <<>> THEN <<[line |-> "Diffs detected on pages", pages |-> pages]>>
    ELSE <<[line |-> "No diffs detected."]>>

InitCompare ==
    /\ \E n1 \in 0..MaxPages, n2 \in 0..MaxPages :
         /\ images1 \in [1..n1 -> Pages1]
         /\ images2 \in [1..n2 -> Pages2]
    /\ pc = "compare_pdfs"
    /\ futures = <<>>
    /\ diff_images = {}
    /\ results = <<>>
    /\ pages_with_changes = <<>>
    /\ diff_txt = <<>>
    /\ soup = <<>>
    /\ siglum_indices = <<>>
    /\ loop_i = 0
    /\ sources = <<>>
    /\ stdout = <<>>
    /\ call = NoCall
    /\ NoTable

\* compare_pdfs: the PDFs have different numbers of pages.
RaiseValueError ==
    /\ pc = "compare_pdfs"
    /\ Len(images1) # Len(images2)
    /\ pc' = "raised ValueError"
    /\ UNCHANGED <<list_vars, compare_vars, table_vars>>

\* compare_pdfs enters compare_pages_in_parallel; executor.map submits one
\* task for each index.
Submit ==
    /\ pc = "compare_pdfs"
    /\ Len(images1) = Len(images2)
    /\ futures' = [i \in range(Len(images1)) |-> [state |-> "pending", ret |-> FALSE]]
    /\ pc' = "map"
    /\ UNCHANGED <<table_vars, list_vars, images1, images2, diff_images, results,
                   pages_with_changes, diff_txt>>

\* A thread of the pool takes the task of the index i.
StartPage ==
    \E i \in DOMAIN futures :
        /\ futures[i].state = "pending"
        /\ futures' = [futures EXCEPT ![i].state = "running"]
    /\ UNCHANGED <<table_vars, list_vars, pc, images1, images2, diff_images, results,
                   pages_with_changes, diff_txt>>

\* The thread compares the page i + 1 and writes its image, or raises.
PageCompared(i, compared) ==
    /\ futures' = [futures EXCEPT ![i] =
                        [state |-> IF compared.exc = "" THEN "written" ELSE "raised",
                         ret |-> compared.ret]]
    /\ diff_images' = diff_images
                        \cup {[page_num |-> n, by |-> i] : n \in compared.written}
    /\ UNCHANGED <<table_vars, list_vars, pc, images1, images2, results, pages_with_changes,
                   diff_txt>>

ComparePage ==
    \E i \in DOMAIN futures :
        /\ futures[i].state = "running"
        /\ PageCompared(i, compare_page(i + 1))

\* compare_page returns; the result of the task is set.
ReturnPage ==
    \E i \in DOMAIN futures :
        /\ futures[i].state = "written"
        /\ futures' = [futures EXCEPT ![i].state = "finished"]
    /\ UNCHANGED <<table_vars, list_vars, pc, images1, images2, diff_images, results,
                   pages_with_changes, diff_txt>>

\* list(...) takes the result of the next task, in the order of the indices.
NextResult ==
    /\ pc = "map"
    /\ Len(results) < Len(images1)
    /\ futures[Len(results)].state = "finished"
    /\ results' = Append(results, futures[Len(results)].ret)
    /\ UNCHANGED <<table_vars, list_vars, pc, images1, images2, futures, diff_images,
                   pages_with_changes, diff_txt>>

\* The next task has raised: the exception leaves the iterator of the
\* results, which cancels the tasks not yet taken.
ResultRaises ==
    /\ pc = "map"
    /\ Len(results) < Len(images1)
    /\ futures[Len(results)].state = "raised"
    /\ futures' = [i \in DOMAIN futures |->
                        IF futures[i].state = "pending"
                        THEN [futures[i] EXCEPT !.state = "cancelled"]
                        ELSE futures[i]]
    /\ pc' = "shutdown"
    /\ UNCHANGED <<table_vars, list_vars, images1, images2, diff_images, results,
                   pages_with_changes, diff_txt>>

\* Every task has finished, has raised or is cancelled.
AllDone ==
    \A i \in DOMAIN futures : futures[i].state \in {"finished", "raised", "cancelled"}

\* The with block is left, after the threads: the pages are appended and
\* compare_pages_in_parallel returns.
ReturnsPages(pages) ==
    /\ pages_with_changes' = pages
    /\ pc' = "log_and_write_diff_results"
    /\ UNCHANGED <<table_vars, list_vars, images1, images2, futures, diff_images, results,
                   diff_txt>>

ReturnPagesWithChanges ==
    /\ pc = "map"
    /\ Len(results) = Len(images1)
    /\ AllDone
    /\ ReturnsPages(PagesWithChanges(results))

\* The with block is left by the exception, after the threads.
RaiseFromPage ==
    /\ pc = "shutdown"
    /\ AllDone
    /\ pc' = "raised cv2.error"
    /\ UNCHANGED <<list_vars, compare_vars, table_vars>>

LogAndWriteDiffResults ==
    /\ pc = "log_and_write_diff_results"
    /\ diff_txt' = Message(pages_with_changes)
    /\ pc' = "done"
    /\ UNCHANGED <<table_vars, list_vars, images1, images2, futures, diff_images, results,
                   pages_with_changes>>

NextCompare ==
    \/ RaiseValueError
    \/ Submit
    \/ StartPage
    \/ ComparePage
    \/ ReturnPage
    \/ NextResult
    \/ ResultRaises
    \/ ReturnPagesWithChanges
    \/ RaiseFromPage
    \/ LogAndWriteDiffResults

SpecCompare == InitCompare /\ [][NextCompare]_vars


----------------------------------------------------------------------------
(* _replace_glyphs: the glyph tokens of a comment *)

glyphs ==
    { <<"a">>,
      <<"b">>,
      <<"b", "b">>,
      <<"#">>,
      <<"x">>,
      <<"f">>,
      <<"f", "f">>,
      <<"f", "f", "f">>,
      <<"f", "f", "f", "f">>,
      <<"m", "f">>,
      <<"m", "p">>,
      <<"p">>,
      <<"p", "p">>,
      <<"p", "p", "p">>,
      <<"p", "p", "p", "p">>,
      <<"p", "e", "d">>,
      <<"s", "f">>,
      <<"s", "f", "z">>,
      <<"s", "p">>,
      <<"A", "c", "h", "t", "e", "l", "n", "o", "t", "e">>,
      <<"G", "a", "n", "z", "e", " ", "N", "o", "t", "e">>,
      <<"H", "a", "l", "b", "e", " ", "N", "o", "t", "e">>,
      <<"S", "e", "c", "h", "z", "e", "h", "n", "t", "e", "l", "n", "o", "t", "e">>,
      <<"V", "i", "e", "r", "t", "e", "l", "n", "o", "t", "e">> }

SPAN_GLYPH == "<span class='glyph'>{{ref.getGlyph('"
SPAN_GLYPH_ACCID == "<span class='glyph accid'>{{ref.getGlyph('"
SPAN_END == "')}}</span>"

\* match_pattern at the position i: the glyphs g with '[' g ']' at i and no
\* hyphen after it.
GlyphsAt(text_, i) ==
    {g \in glyphs :
        /\ startswith(From(text_, i), <<"[">> \o g \o <<"]">>)
        /\ ~startswith(From(text_, i + Len(g) + 2), <<"-">>)}

\* The replacement of a match: match.group(0) inside the span.
Replacement(group0) == <<SPAN_GLYPH>> \o group0 \o <<SPAN_END>>

RECURSIVE Sub(_, _, _)
\* re.sub: the matches from the left, none inside another.
SubStep(text_, i, out, hits) ==
    IF hits = {} THEN Sub(text_, i + 1, Append(out, text_[i]))
    ELSE Sub(text_, i + Len(CHOOSE g \in hits : TRUE) + 2,
             out \o Replacement(<<"[">> \o (CHOOSE g \in hits : TRUE) \o <<"]">>))

Sub(text_, i, out) ==
    IF i > Len(text_) THEN out ELSE SubStep(text_, i, out, GlyphsAt(text_, i))

_replace_glyphs(text_) == Sub(text_, 1, <<>>)

\* The pieces of the comments: glyph tokens, a bracketed word that is no
\* glyph, a hyphen, a space and single characters.
GlyphPieces ==
    {<<"[", "a", "]">>, <<"[", "b", "b", "]">>, <<"[", "#", "]">>, <<"[", "x", "]">>,
     <<"[", "f", "]">>, <<"[", "m", "p", "]">>,
     <<"[", "G", "a", "n", "z", "e", " ", "N", "o", "t", "e", "]">>,
     <<"[", "a", "b", "c", "]">>, <<"-">>, <<" ">>, <<"[">>, <<"]">>, <<"b">>}

\* Most pieces of a comment
MaxPieces == 3

GlyphTexts == {Concat(pieces) : pieces \in SeqsUpTo(GlyphPieces, MaxPieces)}

\* The cell of the comment.
Td(inner) == [name |-> "td", inner |-> inner]

InitGlyphs ==
    /\ soup \in {<<Td(text_)>> : text_ \in GlyphTexts}
    /\ pc = "start"
    /\ siglum_indices = <<>>
    /\ loop_i = 0
    /\ sources = <<>>
    /\ stdout = <<>>
    /\ call = NoCall
    /\ NoComparison
    /\ NoTable

Call_replace_glyphs ==
    /\ pc = "start"
    /\ ReturnsFor("_replace_glyphs", 1, _replace_glyphs(soup[1].inner))

NextGlyphs == Call_replace_glyphs

SpecGlyphs == InitGlyphs /\ [][NextGlyphs]_vars

----------------------------------------------------------------------------
(* The items of a record that other paragraphs follow: the sibling walk,    *)
(* the content slice and the commentary label                               *)

\* a folio line whose marker has no full stop
Folio_no_dot ==
    P(<<"B", "l", " ", "5", "\t", "S", "y", "s", "t", "e", "m", " ", "1", ":", " ", "T", ".", " ", "3", ";">>)

\* the label that closes the content section, without a bold run
Kommentar_plain == P(Textkritischer_Kommentar)

\* the siglum paragraph of the next record
NextHead == P(Bold(<<"B">>))

ItemParas ==
    {Item_M22, Item_M22_plain, Item_other, Page_line, Folio_no_dot,
     FolioLine(<<"2">>, <<TAB>>, <<"3">>, <<"9">>), System_row,
     Kommentar, Kommentar_plain, NextHead}

\* Most paragraphs after "Inhalt:"
MaxItemParas == 3

InitItems ==
    /\ soup \in {ContentOpening(P(Bold(<<"A">>))) \o content :
                    content \in SeqsUpTo(ItemParas, MaxItemParas)}
    /\ pc = "start"
    /\ siglum_indices = <<>>
    /\ loop_i = 0
    /\ sources = <<>>
    /\ stdout = <<>>
    /\ call = NoCall
    /\ NoComparison
    /\ NoTable

\* The condition of _get_items for a paragraph that starts an item.
StartsItem(para_text) ==
    /\ ~startswith(para_text, <<TAB>>)
    /\ ~startswith(para_text, PAGE_STR)
    /\ ~startswith(para_text, FOLIO_STR)

\* The end of the first record: the index of the next siglum paragraph, or
\* the number of paragraphs.
RecordEnd(doc) ==
    next_siglum_index(find_siglum_indices(doc, find_all_p(doc)), 1, find_all_p(doc))

\* _find_siblings(para.next_sibling, []) for a paragraph that starts an item
Call_find_siblings ==
    /\ pc = "start"
    /\ \E k \in ContentPositions(soup) :
         /\ StartsItem(text(soup[k]))
         /\ ReturnsFor("_find_siblings", k,
                       _find_siblings(soup, next_sibling(soup, k), <<>>))

\* _get_content_items on the paragraphs of the first record
ReturnsContentItems(hi, ret) ==
    /\ call' = [fn |-> "_get_content_items", hi |-> hi, ret |-> ret]
    /\ pc' = "returned"
    /\ UNCHANGED <<soup, siglum_indices, loop_i, sources, stdout>>
    /\ UNCHANGED <<compare_vars, table_vars>>

Call_get_content_items ==
    /\ pc = "start"
    /\ ReturnsContentItems(RecordEnd(soup),
                           _get_content_items(soup,
                                              Slice(find_all_p(soup), 0, RecordEnd(soup)),
                                              SourceId(<<"A">>)))

NextItems ==
    \/ Call_find_siblings
    \/ Call_get_item
    \/ Call_get_folios
    \/ Call_get_content_items

SpecItems == InitItems /\ [][NextItems]_vars

----------------------------------------------------------------------------
(* process_table: the comment blocks of a table of textcritical comments    *)

\* A cell with a colspan attribute, and a row of cells.
TdColspan(inner) == [name |-> "td", colspan |-> TRUE, inner |-> inner]
Tr(cells) == [name |-> "tr", cells |-> cells]

\* _strip_tag_and_clean(content, 'td'): the td tags stripped, then the p
\* tags, and the seam of two paragraphs replaced by a line break.
_strip_tag_and_clean(content) ==
    replace(StripTagOf(strip(content.inner)), <<P_CLOSE, P_OPEN>>, <<" ", BR, " ">>)

LEFT_CURLY_BRACKET == <<"{", "{", " ", "'", "{", "'", " ", "}", "}">>
RIGHT_CURLY_BRACKET == <<"{", "{", " ", "'", "}", "'", " ", "}", "}">>

_escape_curly_brackets(text_) ==
    Concat([k \in 1..Len(text_) |->
                IF text_[k] = "{" THEN LEFT_CURLY_BRACKET
                ELSE IF text_[k] = "}" THEN RIGHT_CURLY_BRACKET
                ELSE <<text_[k]>>])

\* The replacement of _add_report_fragment_links for a bold run.
LINK_OPEN == "<a (click)=\"ref.navigateToReportFragment({complexId: 'TODO', fragmentId: 'source_"
LINK_OPEN_END == "'})\">"
LINK_CLOSE == "</a>"

FragmentLink(group1) ==
    <<LINK_OPEN>> \o group1 \o <<LINK_OPEN_END, STRONG_OPEN>> \o group1
        \o <<STRONG_CLOSE, LINK_CLOSE>>

\* The end of the match of <strong>(.*?)</strong> that starts at i: the
\* first closing tag behind i, with no line break before it; 0 without one.
StrongEnd(text_, i) ==
    FirstOf({j \in (i + 1)..Len(text_) :
                /\ text_[j] = STRONG_CLOSE
                /\ \A k \in (i + 1)..(j - 1) : text_[k] # "\n"})

RECURSIVE LinkFrom(_, _)
LinkStep(text_, i, end) ==
    IF text_[i] = STRONG_OPEN /\ end # 0
    THEN FragmentLink(SubSeq(text_, i + 1, end - 1)) \o LinkFrom(text_, end + 1)
    ELSE <<text_[i]>> \o LinkFrom(text_, i + 1)

LinkFrom(text_, i) ==
    IF i > Len(text_) THEN <<>> ELSE LinkStep(text_, i, StrongEnd(text_, i))

_add_report_fragment_links(text_) == LinkFrom(text_, 1)

defaultTextcriticalComment ==
    [svgGroupId |-> <<"T", "O", "D", "O">>, measure |-> <<>>, system |-> <<>>,
     position |-> <<>>, comment |-> <<>>]

defaultTextcriticalCommentBlock == [blockHeader |-> <<>>, blockComments |-> <<>>]

_get_comment(columns_in_row) ==
    [defaultTextcriticalComment EXCEPT
        !.measure = _strip_tag_and_clean(columns_in_row[1]),
        !.system = _strip_tag_and_clean(columns_in_row[2]),
        !.position = _strip_tag_and_clean(columns_in_row[3]),
        !.comment = _replace_glyphs(_add_report_fragment_links(
                        _escape_curly_brackets(_strip_tag_and_clean(columns_in_row[4]))))]

Korrektur == <<"K", "o", "r", "r", "e", "k", "t", "u", "r">>

is_corrections(rows_in_table) ==
    contains(strip(rows_in_table[1].cells[Len(rows_in_table[1].cells)].inner), Korrektur)

\* The rows of a table: the row of the column titles first.
TableHead ==
    Tr(<<Td(<<"T", "a", "k", "t">>), Td(<<"S", "y", "s", "t", "e", "m">>),
         Td(<<"S", "t", "i", "m", "m", "e">>),
         Td(<<"B", "e", "m", "e", "r", "k", "u", "n", "g">>)>>)

TableRows ==
    {Tr(<<TdColspan(<<"I">>)>>),
     Tr(<<TdColspan(<<P_OPEN, "I", "I", P_CLOSE>>)>>),
     Tr(<<Td(<<"1">>), Td(<<"2">>), Td(<<"K", "l", ".">>),
          Td(<<"[", "a", "]", " ", "{", "x", "}">>)>>),
     Tr(<<Td(<<"5">>), Td(<<>>), Td(<<>>),
          Td(Bold(<<"A">>) \o <<" ", "[", "p", "p", "]", "-", "s">>)>>)}

MaxRows == 4

InitTable ==
    /\ soup \in {<<TableHead>> \o rows : rows \in SeqsUpTo(TableRows, MaxRows)}
    /\ pc = "start"
    /\ siglum_indices = <<>>
    /\ loop_i = 0
    /\ sources = <<>>
    /\ stdout = <<>>
    /\ call = NoCall
    /\ NoComparison
    /\ NoTable

\* process_table up to its call of _process_table_rows: the default block
\* with an empty header.
Call_process_table ==
    /\ pc = "start"
    /\ textcritics' = <<defaultTextcriticalCommentBlock>>
    /\ block_index' = -1 + 1
    /\ row' = 2
    /\ pc' = "_process_table_rows"
    /\ UNCHANGED <<list_vars, compare_vars>>

\* The comments after a row with a colspan attribute in its first cell.
WithBlock(comments, header) ==
    Append(comments, [defaultTextcriticalCommentBlock EXCEPT !.blockHeader = header])

\* A pass of the loop of _process_table_rows on a header row.
HeaderRow ==
    /\ pc = "_process_table_rows"
    /\ row <= Len(soup)
    /\ "colspan" \in DOMAIN soup[row].cells[1]
    /\ textcritics' = WithBlock(IF textcritics[1].blockComments = <<>>
                                THEN Tail(textcritics) ELSE textcritics,
                                _strip_tag_and_clean(soup[row].cells[1]))
    /\ block_index' = (IF textcritics[1].blockComments = <<>>
                       THEN block_index - 1 ELSE block_index) + 1
    /\ row' = row + 1
    /\ UNCHANGED <<pc, list_vars, compare_vars>>

\* A pass of the loop on a row of four cells.
CommentRow ==
    /\ pc = "_process_table_rows"
    /\ row <= Len(soup)
    /\ "colspan" \notin DOMAIN soup[row].cells[1]
    /\ textcritics' = IF block_index >= 0
                      THEN [textcritics EXCEPT ![block_index + 1].blockComments =
                                Append(@, _get_comment(soup[row].cells))]
                      ELSE textcritics
    /\ row' = row + 1
    /\ UNCHANGED <<pc, block_index, list_vars, compare_vars>>

\* The loop is over: process_table prints and appends the textcritics to an
\* empty textcritics_list.
Return_process_table ==
    /\ pc = "_process_table_rows"
    /\ row > Len(soup)
    /\ ~is_corrections(soup)
    /\ stdout' = Append(stdout, "Appending textcritics for table 1...")
    /\ call' = [fn |-> "process_table", ret |-> <<textcritics>>]
    /\ pc' = "returned"
    /\ UNCHANGED <<soup, siglum_indices, loop_i, sources, compare_vars, table_vars>>

NextTable == Call_process_table \/ HeaderRow \/ CommentRow \/ Return_process_table

SpecTable == InitTable /\ [][NextTable]_vars

----------------------------------------------------------------------------
(* Properties: the shapes of a siglum paragraph, said without the patterns *)

\* The serialised inner markup of a paragraph.
Markup(tag) == SelectSeq(tag.inner, LAMBDA c : c # NODE_SEAM)

Count(m, token, before) == Cardinality({i \in 1..(before - 1) : m[i] = token})

\* The characters of m inside a <strong> element, and those outside.
InBold(m, i) ==
    m[i] \notin MarkupTags /\ Count(m, STRONG_OPEN, i) > Count(m, STRONG_CLOSE, i)
OutsideBold(m, i) ==
    m[i] \notin MarkupTags /\ Count(m, STRONG_OPEN, i) = Count(m, STRONG_CLOSE, i)
InSup(m, i) == Count(m, SUP_OPEN, i) > Count(m, SUP_CLOSE, i)

BoldRuns(m) == Count(m, STRONG_OPEN, Len(m) + 1)

Letters == UpperCase \cup LowerCase

\* A letter, then a digit or none, then an en dash and a digit or none.
IsAddendum(add) ==
    \/ add = <<>>
    \/ /\ add[1] \in Letters
       /\ \/ Len(add) = 1
          \/ Len(add) = 2 /\ add[2] \in Digits
          \/ Len(add) = 3 /\ add[2] = EN_DASH /\ add[3] \in Digits
          \/ Len(add) = 4 /\ add[2] \in Digits /\ add[3] = EN_DASH /\ add[4] \in Digits

IsLetter(core) == Len(core) = 1 /\ core[1] \in UpperCase

IsBracketedLetter(core) ==
    Len(core) = 3 /\ core[1] = "[" /\ core[2] \in UpperCase /\ core[3] = "]"

IsLetterWithSup(core) ==
    /\ Len(core) >= 3
    /\ core[1] \in UpperCase
    /\ core[2] = SUP_OPEN
    /\ core[Len(core)] = SUP_CLOSE
    /\ IsAddendum(SubSeq(core, 3, Len(core) - 1))

IsBracketedLetterWithSup(core) ==
    /\ Len(core) >= 5
    /\ core[1] = "["
    /\ IsLetterWithSup(SubSeq(core, 2, Len(core) - 1))
    /\ core[Len(core)] = "]"

\* The bold run of a paragraph that is one bold run with whitespace around.
BoldRunOf(around) == SubSeq(around, 2, Len(around) - 1)

IsOneBoldRun(around) ==
    /\ Len(around) >= 2
    /\ around[1] = STRONG_OPEN
    /\ around[Len(around)] = STRONG_CLOSE
    /\ \A i \in 2..(Len(around) - 1) : around[i] \notin {STRONG_OPEN, STRONG_CLOSE}

\* One of the four shapes: whitespace may stand around the bold run and, in
\* it, before the siglum; after the siglum too, unless it is bracketed with a
\* superscript.
HasShape(bold) ==
    \/ IsLetter(strip(bold))
    \/ IsBracketedLetter(strip(bold))
    \/ IsLetterWithSup(strip(bold))
    \/ /\ IsBracketedLetterWithSup(strip(bold))
       /\ bold[Len(bold)] = "]"

AcceptedShape(tag) ==
    /\ tag.name = "p"
    /\ IsOneBoldRun(strip(Markup(tag)))
    /\ HasShape(BoldRunOf(strip(Markup(tag))))

\* The ways of a paragraph not to be a siglum paragraph.
LetterNotBold(m) == BoldRuns(m) = 0
TwoBoldRuns(m) == BoldRuns(m) >= 2
MoreThanOneLetter(m) ==
    Cardinality({i \in 1..Len(m) : InBold(m, i) /\ ~InSup(m, i) /\ m[i] \in Letters}) > 1
TextOutsideBold(m) == \E i \in 1..Len(m) : OutsideBold(m, i)
NonWhitespaceOutsideBold(m) == \E i \in 1..Len(m) : OutsideBold(m, i) /\ ~IsSpace(m[i])

----------------------------------------------------------------------------
(* Properties of create_source_list *)

Duplications == {k \in 1..Len(stdout) : stdout[k].line = "Duplication"}

\* C1: create_source_list completes whatever the length of each partition,
\* and when no two detected sigla yield the same id it returns exactly as
\* many source records as the siglum scan detected siglum paragraphs.
C1_CompletesWithOneRecordPerSiglum ==
    /\ pc # "raised"
    /\ (pc = "done" /\ Duplications = {}) => Len(sources) = Len(siglum_indices)

\* C2: after any prefix of the partitions has been processed, no two records
\* of the output list have the same id.
C2_NoTwoRecordsShareAnId ==
    \A j, k \in 1..Len(sources) : sources[j].id = sources[k].id => j = k

\* A second partition with the id of the first has been processed.
C2_DuplicateMet == Duplications # {} /\ Len(sources) = 1 /\ loop_i = 3

\* The partition yields a record whose id occurs in the output list.
YieldsDuplicate(assembled) ==
    /\ assembled.exc = ""
    /\ \E k \in 1..Len(sources) : sources[k].id = assembled.ret.id

\* C3: a pass of the loop over a partition whose record has an id that is in
\* the output list leaves the list as it is, raises nothing, and goes on to
\* the next partition.
C3_DuplicateIsSkipped ==
    [][(/\ InLoop
        /\ YieldsDuplicate(_create_source_description(soup,
                               filtered_paras(soup, siglum_indices, loop_i))))
       => (sources' = sources /\ pc' = "loop" /\ loop_i' = loop_i + 1)]_vars

\* The loop has gone on after a duplicate and create_source_list returned.
C3_ReturnedAfterDuplicate ==
    /\ pc = "done"
    /\ Duplications # {}
    /\ stdout[Len(stdout)].line = "Duplication"
    /\ sources # <<>>

\* C5: when no paragraph of the document is a bold single-letter siglum
\* paragraph, the siglum scan returns no index and create_source_list returns
\* an empty list of records and raises nothing.
C5_NoSiglumNoRecord ==
    (\A k \in 1..Len(soup) : ~AcceptedShape(soup[k]))
    => /\ siglum_indices = <<>>
       /\ sources = <<>>
       /\ pc # "raised"

\* A document with paragraphs and no siglum paragraph has been processed.
C5_ReturnedEmpty ==
    /\ pc = "done"
    /\ Len(soup) >= 2
    /\ \A k \in 1..Len(soup) : ~AcceptedShape(soup[k])
    /\ sources = <<>>

----------------------------------------------------------------------------
(* Properties of find_siglum_indices *)

ScanReturned == pc = "returned" /\ call.fn = "find_siglum_indices"

\* The indices of ret, and the 0-based indices of the paragraphs of a shape.
Returned(ret) == {ret[j] : j \in 1..Len(ret)}
WithShape(doc, paras) ==
    {PyIndex(k) : k \in {i \in 1..Len(paras) : AcceptedShape(doc[paras[i]])}}

StrictlyIncreasing(ret) == \A j \in 1..(Len(ret) - 1) : ret[j] < ret[j + 1]

\* The paragraphs that are never flagged, with any text outside the bold run
\* counted, and with the non-whitespace text alone.
NeverFlagged(m) ==
    LetterNotBold(m) \/ MoreThanOneLetter(m) \/ TwoBoldRuns(m) \/ TextOutsideBold(m)
NeverFlaggedButForSpace(m) ==
    \/ LetterNotBold(m)
    \/ MoreThanOneLetter(m)
    \/ TwoBoldRuns(m)
    \/ NonWhitespaceOutsideBold(m)

\* C4 as stated: find_siglum_indices returns, strictly increasing, exactly
\* the indices of the paragraphs of one of the four shapes, and never the
\* index of a paragraph whose letter is not bold, whose bold run holds more
\* than one letter, which has two bold runs, or which has any text outside
\* the bold run.
C4_NoTextOutsideTheBoldRun ==
    ScanReturned =>
        /\ StrictlyIncreasing(call.ret)
        /\ Returned(call.ret) = WithShape(soup, find_all_p(soup))
        /\ \A k \in 1..Len(soup) :
              NeverFlagged(Markup(soup[k])) => PyIndex(k) \notin Returned(call.ret)

\* C4, amended: find_siglum_indices returns, strictly increasing, exactly the
\* indices of the paragraphs of one of the four shapes, whitespace around the
\* bold run and around the siglum in it allowed; it never returns the index
\* of a paragraph whose letter is not bold, whose bold run holds more than one
\* letter outside the superscript, which has two bold runs, or which has any
\* text other than whitespace outside the bold run.
C4_ExactlyTheFourShapes ==
    ScanReturned =>
        /\ StrictlyIncreasing(call.ret)
        /\ Returned(call.ret) = WithShape(soup, find_all_p(soup))
        /\ \A k \in 1..Len(soup) :
              NeverFlaggedButForSpace(Markup(soup[k]))
              => PyIndex(k) \notin Returned(call.ret)

\* Of three paragraphs the first, with whitespace before its bold run, and
\* the last are flagged; the one between them, with text after its bold run,
\* is not.
C4_FlaggedAroundNearMiss ==
    /\ ScanReturned
    /\ Len(soup) = 3
    /\ call.ret = <<0, 2>>
    /\ TextOutsideBold(Markup(soup[1]))
    /\ NonWhitespaceOutsideBold(Markup(soup[2]))

----------------------------------------------------------------------------
(* Properties of the label functions *)

Called(fn) == pc = "returned" /\ call.fn = fn

\* The slice the call was made on.
CallParas == Slice(find_all_p(soup), call.lo, call.hi)

\* The 1-based places in paras of the paragraphs whose text contains the
\* label, and of those with a text node that contains it.
TextCarries(doc, paras, label) ==
    {k \in 1..Len(paras) : contains(text(doc[paras[k]]), label)}
NodeCarries(doc, paras, label) ==
    {k \in 1..Len(paras) : find_string(doc[paras[k]], label)}

HasLabel(label) == ~label.isNone /\ label.s # <<>>

\* C6: _get_paragraph_index_by_label returns the smallest index of a
\* paragraph of the sequence whose text contains the label, and
\* _find_tag_with_label_in_soup returns that paragraph; they return -1 and
\* None when no paragraph contains the label and when the label is None or
\* empty.
C6_FirstParagraphWhoseTextContainsTheLabel ==
    /\ Called("_get_paragraph_index_by_label") =>
          call.ret = IF HasLabel(call.label)
                        /\ TextCarries(soup, CallParas, call.label.s) # {}
                     THEN PyIndex(MinOf(TextCarries(soup, CallParas, call.label.s)))
                     ELSE -1
    /\ Called("_find_tag_with_label_in_soup") =>
          call.ret = IF HasLabel(call.label)
                        /\ TextCarries(soup, CallParas, call.label.s) # {}
                     THEN CallParas[MinOf(TextCarries(soup, CallParas, call.label.s))]
                     ELSE NoTag

AfterLabel(s, label) == From(s, find(s, label) + Len(label))

\* The siblings that continue a content: the paragraphs that follow, as long
\* as they end in ';', and the first that ends in '.'.
EndsIn(doc, pos, char) ==
    /\ pos <= Len(doc)
    /\ doc[pos].name = "p"
    /\ endswith(_strip_tag(doc[pos]), <<char>>)

Continues(doc, first, pos) ==
    /\ \A q \in (first + 1)..(pos - 1) : EndsIn(doc, q, SEMICOLON)
    /\ EndsIn(doc, pos, SEMICOLON) \/ EndsIn(doc, pos, DOT)

Continuation(doc, first) == {pos \in (first + 1)..Len(doc) : Continues(doc, first, pos)}

\* The fragments of a label's paragraph at place first of the document: what
\* follows the label in it, then its continuation if it ends in ';'.
FragmentsFrom(doc, first, content) ==
    [j \in 1..(1 + IF endswith(content, <<SEMICOLON>>)
                   THEN Cardinality(Continuation(doc, first)) ELSE 0) |->
        IF j = 1 THEN StripPunctuation(content)
        ELSE StripPunctuation(_strip_tag(doc[first + j - 1]))]

Fragments(doc, first, label) ==
    FragmentsFrom(doc, first, strip(AfterLabel(_strip_tag(doc[first]), label)))

\* C8: the first fragment of _get_paragraph_content_by_label is the content
\* that follows the label in the label's paragraph; following paragraphs are
\* consumed only when that content ends with ';': each one ending in ';' is
\* appended, the first ending in '.' is appended and is the last, the first
\* ending in neither is not appended and nothing after it is.
C8_ContentAfterLabelAndContinuation ==
    (Called("_get_paragraph_content_by_label") /\ call.ret # <<>>) =>
        call.ret = Fragments(soup,
                             _find_tag_with_label_in_soup(soup, call.label, CallParas),
                             call.label.s)

\* C9: no fragment returned by _get_paragraph_content_by_label ends with '.'
\* or with ';'.
C9_NoFinalPunctuation ==
    Called("_get_paragraph_content_by_label") =>
        \A j \in 1..Len(call.ret) :
            ~endswith(call.ret[j], <<DOT>>) /\ ~endswith(call.ret[j], <<SEMICOLON>>)

\* The record made of the slice, and its titles.
RecordMade == Called("create_source_description") /\ call.ret.exc = ""
titles == call.ret.ret.description.titles

\* The content of the paragraph at place k of paras, as a label's paragraph.
ContentAt(doc, paras, k, label) ==
    StripPunctuation(strip(AfterLabel(_strip_tag(doc[paras[k]]), label)))

\* The places of S, in order.
RECURSIVE InOrder(_)
InOrder(S) == IF S = {} THEN <<>> ELSE <<MinOf(S)>> \o InOrder(S \ {MinOf(S)})

\* C10 as stated: when two paragraphs of a slice carry 'Titel:', the titles
\* of the record hold an entry for each paragraph that carries it, in
\* document order.
C10_AnEntryForEachLabelledParagraph ==
    (RecordMade /\ Cardinality(NodeCarries(soup, CallParas, Titel)) >= 2) =>
        titles = [j \in 1..Cardinality(NodeCarries(soup, CallParas, Titel)) |->
                    ContentAt(soup, CallParas,
                              InOrder(NodeCarries(soup, CallParas, Titel))[j], Titel)]

\* The first paragraph of paras that carries the label, as a place in doc.
FirstCarrier(doc, paras, label) == paras[MinOf(NodeCarries(doc, paras, label))]

\* C10, amended: the titles of the record come from the first paragraph of
\* the slice that carries 'Titel:' alone: the first entry is what follows the
\* label in it, up to a further occurrence of the label; every other entry is
\* a paragraph of its continuation (if that first entry ended in ';'), whole,
\* a label in it included.  A later paragraph that carries the label and is
\* outside the continuation has no entry.
C10_FirstLabelledParagraphAlone ==
    RecordMade =>
        IF NodeCarries(soup, CallParas, Titel) = {} THEN titles = <<>>
        ELSE titles = FragmentsFrom(soup, FirstCarrier(soup, CallParas, Titel),
                          _strip_by_delimiter(
                              _strip_tag(soup[FirstCarrier(soup, CallParas, Titel)]),
                              Titel)[2])

\* A record made of a slice with two paragraphs that carry 'Titel:', the
\* second outside the continuation of the first: one title.
C10_SecondTitelDropped ==
    /\ RecordMade
    /\ Cardinality(NodeCarries(soup, CallParas, Titel)) = 2
    /\ Len(titles) = 1

----------------------------------------------------------------------------
(* Properties of the content parser *)

\* create_source_description has returned a record for the whole document.
RecordReturned ==
    /\ pc = "returned"
    /\ call.fn = "create_source_description"
    /\ call.ret.exc = ""

BracketWrapped(s) == s # <<>> /\ s[1] = "[" /\ s[Len(s)] = "]"

Brackets(s, wrapped) == IF wrapped THEN <<"[">> \o s \o <<"]">> ELSE s

HasKey(record, key) == \E k \in 1..Len(record.keys) : record.keys[k] = key

\* What C11 says of a record made of a siglum paragraph with the text
\* head_text.
BracketsTaken(head_text, record) ==
    /\ HasKey(record, "missing") <=> BracketWrapped(head_text)
    /\ HasKey(record, "missing") => record.missing = TRUE
    /\ head_text = Brackets(record.siglum \o record.siglumAddendum,
                            BracketWrapped(head_text))
    /\ \A k \in 1..Len(record.siglum) : record.siglum[k] \notin {"[", "]"}
    /\ record.id = SOURCE_PREFIX \o record.siglum \o record.siglumAddendum

\* C11: the record that create_source_description makes of a siglum
\* paragraph has the entry missing = True exactly when the text of the
\* paragraph is wrapped in square brackets; its siglum is the text without
\* the brackets and without the superscript, and its id is 'source_', the
\* bare siglum and the superscript addendum.  (The text is read before the
\* call, which takes the superscript out of the paragraph.)
C11_BracketedSiglumIsMissing ==
    [][(pc = "start" /\ RecordReturned') =>
            BracketsTaken(strip(text(soup[1])), call'.ret.ret)]_vars

\* A record of a bracketed siglum with a superscript has been made.
C11_BracketedRecordMade ==
    /\ RecordReturned
    /\ HasKey(call.ret.ret, "missing")
    /\ call.ret.ret.siglumAddendum = <<"c">>

\* _get_item has returned an item with a label.
ItemReturned ==
    /\ pc = "returned"
    /\ call.fn = "_get_item"
    /\ call.ret.exc = ""
    /\ call.ret.item.item # <<>>

\* The label with every space and dot as '_' and every '*' as 'star'.
Normalized(label) ==
    Concat([k \in 1..Len(label) |->
                IF label[k] \in {" ", "."} THEN <<"_">>
                ELSE IF label[k] = "*" THEN <<"s","t","a","r">>
                ELSE <<label[k]>>])

\* The first two '_'-delimited tokens of a normalized label, concatenated.
Underscores(s) == {k \in 1..Len(s) : s[k] = "_"}
SecondOf(S) == MinOf(S \ {MinOf(S)})
FirstTwoTokens(s) ==
    SelectSeq(IF Cardinality(Underscores(s)) < 2 THEN s
              ELSE Upto(s, SecondOf(Underscores(s)) - 1),
              LAMBDA c : c # "_")

\* C12: the itemLinkTo of an item with a label: sheetId is the normalized
\* label, or 'SkRT' for a label with a '/'; complexId is the lower-cased
\* concatenation of the first two '_'-delimited tokens of the normalized
\* label.
C12_ItemLinkDerivedFromLabel ==
    ItemReturned =>
        call.ret.item.itemLinkTo =
            <<[complexId |-> lower(FirstTwoTokens(Normalized(call.ret.item.item))),
               sheetId |-> IF \E k \in 1..Len(call.ret.item.item) :
                                    call.ret.item.item[k] = "/"
                           THEN <<"S","k","R","T">>
                           ELSE Normalized(call.ret.item.item)]>>

\* An item of a label with a '/' and a '*' has been returned.
C12_RowTableItemReturned ==
    /\ ItemReturned
    /\ \E k \in 1..Len(call.ret.item.item) : call.ret.item.item[k] = "/"
    /\ \E k \in 1..Len(call.ret.item.item) : call.ret.item.item[k] = "*"

\* _get_folios has returned its folios.
FoliosReturned ==
    /\ pc = "returned"
    /\ call.fn = "_get_folios"
    /\ call.ret.exc = ""

\* C13: no folio in the result of _get_folios has both a non-empty
\* folioDescription and a non-empty list of systemGroups.
C13_FolioDescriptionOrSystemGroups ==
    FoliosReturned =>
        \A k \in 1..Len(call.ret.folios) :
            ~(/\ call.ret.folios[k].folioDescription # <<>>
              /\ call.ret.folios[k].systemGroups # <<>>)

SystemGroupReturned == pc = "returned" /\ call.fn = "_get_system_group"

\* C14: every system in the result of _get_system_group has a non-empty
\* measure label or a row, and not both.
C14_SystemHasMeasureOrRow ==
    SystemGroupReturned =>
        \A k \in 1..Len(call.ret) :
            (call.ret[k].measure # <<>>) # (call.ret[k].row # <<>>)

\* C15: the systems of a folio paragraph whose text contains 'T.' carry no
\* row, and when a system of a paragraph carries a row, no system of that
\* paragraph carries a measure label.
C15_ParagraphOfMeasuresOrOfRows ==
    SystemGroupReturned =>
        /\ contains(text(soup[call.para]), <<"T", ".">>) =>
                \A k \in 1..Len(call.ret) : call.ret[k].row = <<>>
        /\ (\E k \in 1..Len(call.ret) : call.ret[k].row # <<>>) =>
                \A k \in 1..Len(call.ret) : call.ret[k].measure = <<>>

\* The segments of a paragraph, cut at the tabs, that name a system and its
\* value: those with 'System' and a colon and without a folio or page marker.
TabSegments(s) ==
    IF Len(split(s, <<" ", "\t">>)) = 2 THEN split(s, <<" ", "\t">>)
    ELSE split(s, <<"\t">>)

SystemSegments(s) ==
    SelectSeq(TabSegments(s),
              LAMBDA segment :
                  /\ contains(segment, <<"S","y","s","t","e","m">>)
                  /\ contains(segment, <<":">>)
                  /\ ~contains(segment, <<"B","l",".">>)
                  /\ ~contains(segment, <<"S",".">>))

\* The value of a segment: the text between its first colon and the next.
ValueOf(segment) == split(segment, <<":">>)[2]

\* C15, amended: the systems of a paragraph are those of its system
\* segments, one by one; a system of a segment whose value contains 'T.'
\* carries no row, and a system that carries a row carries no measure label.
C15_SystemOfMeasureOrOfRow ==
    SystemGroupReturned =>
        /\ Len(call.ret) = Len(SystemSegments(text(soup[call.para])))
        /\ \A k \in 1..Len(call.ret) :
             /\ contains(ValueOf(SystemSegments(text(soup[call.para]))[k]), <<"T", ".">>)
                    => call.ret[k].row = <<>>
             /\ call.ret[k].row # <<>> => call.ret[k].measure = <<>>

\* The systems of a paragraph with a measure system and a row system have
\* been returned.
C15_MeasureAndRowInOneParagraph ==
    /\ SystemGroupReturned
    /\ \E k \in 1..Len(call.ret) : call.ret[k].row # <<>>
    /\ \E k \in 1..Len(call.ret) : call.ret[k].measure # <<>>

\* The example record of C16, its folio line written with sep between the
\* folio label and the system.
ExampleRecord(sep) ==
    ContentOpening(P(Bold(<<"A">>)))
        \o <<Item_M22_plain, FolioLine(<<"1", "r">>, sep, <<"1">>, <<"1", "-", "8">>)>>

OneSystem(s, m) == <<<<[system |-> s, measure |-> m, linkTo |-> <<>>, row |-> <<>>]>>>>

\* One item 'M 22' with one folio '1r' with one system '1', measure '1-8'.
ExampleContents(contents) ==
    /\ Len(contents) = 1
    /\ contents[1].item = <<"M", " ", "2", "2">>
    /\ Len(contents[1].folios) = 1
    /\ contents[1].folios[1].folio = <<"1", "r">>
    /\ contents[1].folios[1].systemGroups = OneSystem(<<"1">>, <<"1", "-", "8">>)

\* The folio lines 'Bl. f<sep>System s: T. m.' of the documents.
Labels == {<<"1">>, <<"2">>, <<"3">>, <<"9">>, <<"1", "r">>, <<"1", "-", "8">>}

\* _get_folios, called on a folio line alone, gives the folio f with the
\* one system (s, m).
FolioLineRead(sep) ==
    (pc = "returned" /\ call.fn = "_get_folios") =>
        \A f \in Labels, s \in Labels, m \in Labels :
            (/\ soup[call.para + 1] = FolioLine(f, sep, s, m)
             /\ (\/ call.para + 2 > Len(soup)
                 \/ soup[call.para + 2] = Kommentar))
            => /\ call.ret.exc = ""
               /\ Len(call.ret.folios) = 1
               /\ call.ret.folios[1].folio = f
               /\ call.ret.folios[1].systemGroups = OneSystem(s, m)

ExampleRead(sep) ==
    (pc = "returned" /\ call.fn = "create_source_description" /\ soup = ExampleRecord(sep))
        => /\ call.ret.exc = ""
           /\ call.ret.ret.siglum = <<"A">>
           /\ ExampleContents(call.ret.ret.description.contents)

\* C16: the example record, its folio line 'Bl. 1r System 1: T. 1-8.'
\* written with spaces, gives one record 'A' with one item 'M 22' with one
\* folio '1r' with one system '1', measure '1-8'; a folio line
\* 'Bl. f System s: T. m.' gives the folio f with the one system (s, m).
C16_ExampleWithSpaces == ExampleRead(<<" ">>) /\ FolioLineRead(<<" ">>)

\* C16, amended: the same of the example record and of a folio line whose
\* folio label and system are separated by a tab,
\* 'Bl. f<TAB>System s: T. m.'.
C16_ExampleWithTab == ExampleRead(<<"\t">>) /\ FolioLineRead(<<"\t">>)

\* The record of the example with the tab has been made.
C16_ExampleRecordMade ==
    /\ RecordReturned
    /\ soup = ExampleRecord(<<"\t">>)
    /\ ExampleContents(call.ret.ret.description.contents)

\* The three malformed inputs of C17.
SystemBeforeFolio(doc, k) ==
    /\ k + 1 <= Len(doc)
    /\ contains(text(doc[k + 1]), <<"S","y","s","t","e","m">>)
    /\ ~contains(text(doc[k + 1]), <<"B","l",".">>)
    /\ ~contains(text(doc[k + 1]), <<"S",".">>)

FolioWithoutSecondSegment(doc, k) ==
    /\ k + 1 <= Len(doc)
    /\ contains(text(doc[k + 1]), <<"B","l",".">>)
    /\ ~contains(text(doc[k + 1]), <<"S","y","s","t","e","m">>)
    /\ ~contains(text(doc[k + 1]), <<"\t">>)

ItemWithoutParenthesis(doc, k) ==
    /\ startswith(text(doc[k]), <<"M", " ">>)
    /\ ~contains(text(doc[k]), <<"(">>)

\* C17: malformed formatting in a content section does not raise: not in
\* _get_folios for a first line with the system marker and without a folio
\* or page marker, nor for a folio line with neither the system marker nor a
\* second segment; not in _get_item for an 'M ' paragraph without an opening
\* parenthesis; and the record is made.
C17_MalformedContentDoesNotRaise ==
    /\ (pc = "returned" /\ call.fn = "_get_folios"
            /\ (SystemBeforeFolio(soup, call.para)
                    \/ FolioWithoutSecondSegment(soup, call.para)))
        => call.ret.exc = ""
    /\ (pc = "returned" /\ call.fn = "_get_item"
            /\ ItemWithoutParenthesis(soup, call.para))
        => call.ret.exc = ""
    /\ (pc = "returned" /\ call.fn = "create_source_description")
        => call.ret.exc \notin {"IndexError", "UnboundLocalError"}

----------------------------------------------------------------------------
(* Properties of compare_pdfs *)

\* compare_pages_in_parallel has returned.
PagesReturned == pc \in {"log_and_write_diff_results", "done"}

Ascending(pages) == \A j, k \in 1..Len(pages) : j < k => pages[j] < pages[k]

\* The 1-based numbers of the pages whose comparison returned True.
PagesComparedTrue == {i + 1 : i \in {j \in DOMAIN futures : futures[j].ret}}

\* C19: in every interleaving of the threads, compare_pages_in_parallel
\* returns the ascending list of the 1-based numbers of the pages whose
\* comparison returned True; no file is written by two tasks; and the list is
\* made only when every task has finished.
C19_AscendingPagesAfterAllWorkers ==
    /\ PagesReturned =>
            /\ Ascending(pages_with_changes)
            /\ {pages_with_changes[k] : k \in 1..Len(pages_with_changes)}
                    = PagesComparedTrue
    /\ \A w1 \in diff_images, w2 \in diff_images :
            w1.page_num = w2.page_num => w1.by = w2.by
    /\ (PagesReturned \/ pages_with_changes # <<>>) =>
            \A i \in DOMAIN futures : futures[i].state = "finished"

\* The pages 1 and 3 of three have been returned.
C19_FirstAndThirdPageReturned ==
    /\ PagesReturned
    /\ Len(images1) = 3
    /\ pages_with_changes = <<1, 3>>

\* C20: after a run of compare_pdfs the image diff_page_N.png is in
\* diff_images/ exactly when the page N differs between the two PDFs.
C20_ImageExactlyForDifferingPages ==
    pc = "done" =>
        \A N \in 1..MaxPages :
            (\E w \in diff_images : w.page_num = N)
                <=> (N <= Len(images1) /\ highlight_differences(images1[N], images2[N]))

----------------------------------------------------------------------------
(* Properties of _replace_glyphs *)

Accidentals == {<<"a">>, <<"b">>, <<"b", "b">>, <<"#">>, <<"x">>}

\* The span of C21 for the glyph g.
GlyphSpan(g) ==
    <<IF g \in Accidentals THEN SPAN_GLYPH_ACCID ELSE SPAN_GLYPH>> \o g \o <<SPAN_END>>

RECURSIVE GlyphsReplaced(_, _)
\* The text from i on with every glyph token that no hyphen follows as its
\* span, and everything else as it is.
GlyphsReplaced(text_, i) ==
    IF i > Len(text_) THEN <<>>
    ELSE IF GlyphsAt(text_, i) = {} THEN <<text_[i]>> \o GlyphsReplaced(text_, i + 1)
    ELSE GlyphSpan(CHOOSE g \in GlyphsAt(text_, i) : TRUE)
            \o GlyphsReplaced(text_, i + Len(CHOOSE g \in GlyphsAt(text_, i) : TRUE) + 2)

\* C21: _replace_glyphs replaces every token [g] of a glyph g that no hyphen
\* follows by <span class='glyph'>{{ref.getGlyph('g')}}</span>, g without its
\* brackets, with the class 'glyph accid' for the accidentals a, b, bb, #, x,
\* and leaves every other part of the text as it is.
C21_GlyphTokensReplaced ==
    (pc = "returned" /\ call.fn = "_replace_glyphs") =>
        call.ret = GlyphsReplaced(soup[1].inner, 1)

----------------------------------------------------------------------------
(* Properties of the partitions *)

\* The Python index of the paragraph at the position p of the document.
ParaIndex(doc, p) == Cardinality({q \in 1..(p - 1) : doc[q].name = "p"})

\* The paragraphs with an index from lo up to and excluding hi, in document
\* order.
Range(doc, lo, hi) ==
    SelectSeq(find_all_p(doc),
              LAMBDA p : lo <= ParaIndex(doc, p) /\ ParaIndex(doc, p) < hi)

Members(partition) == {partition[k] : k \in 1..Len(partition)}

\* C22: the i-th partition handed to _create_source_description is the
\* paragraphs from index[i] up to and excluding index[i+1], the last one
\* runs through the last paragraph of the document; the partitions are
\* disjoint and in document order, and no paragraph before the first siglum
\* is in one.
C22_PartitionsAreTheSiglumRanges ==
    call.fn = "_create_source_description" =>
        /\ Len(call.partitions) <= Len(siglum_indices)
        /\ \A i \in 1..Len(call.partitions) :
             /\ i < Len(siglum_indices) =>
                    call.partitions[i]
                        = Range(soup, siglum_indices[i], siglum_indices[i + 1])
             /\ i = Len(siglum_indices) =>
                    /\ call.partitions[i]
                            = Range(soup, siglum_indices[i], Len(find_all_p(soup)))
                    /\ call.partitions[i][Len(call.partitions[i])]
                            = find_all_p(soup)[Len(find_all_p(soup))]
             /\ \A p \in Members(call.partitions[i]) :
                    ParaIndex(soup, p) >= siglum_indices[1]
             /\ \A j \in 1..(i - 1) :
                    \A p \in Members(call.partitions[j]), q \in Members(call.partitions[i]) :
                        p < q

\* Two partitions have been handed over, the last one after paragraphs that
\* belong to the first.
C22_TwoPartitionsHanded ==
    /\ pc = "done"
    /\ call.fn = "_create_source_description"
    /\ Len(call.partitions) = 2
    /\ Len(call.partitions[1]) > 1

----------------------------------------------------------------------------
(* Properties of the items of a record *)

\* The position of the "Inhalt:" paragraph of the record.
InhaltAt == Len(ContentOpening(<<>>))

IsCommentsLabel(para) ==
    \/ contains(text(para), Textkritischer_Kommentar)
    \/ contains(text(para), Textkritische_Anmerkungen)

\* The position of the first commentary label among the first hi
\* paragraphs; 0 without one.
CommentsAt(doc, hi) == FirstOf({k \in 1..hi : IsCommentsLabel(doc[k])})

\* The content slice of the record of the first hi paragraphs: after
\* "Inhalt:", before the commentary label, through the last paragraph of the
\* record without a label.
InContentSlice(doc, hi, k) ==
    /\ InhaltAt < k
    /\ k <= hi
    /\ CommentsAt(doc, hi) # 0 => k < CommentsAt(doc, hi)

ItemStarts(doc, hi) ==
    {k \in 1..Len(doc) : InContentSlice(doc, hi, k) /\ StartsItem(text(doc[k]))}

ContentItemsReturned ==
    /\ pc = "returned"
    /\ call.fn = "_get_content_items"
    /\ call.ret.exc = ""

\* C23: _get_content_items scans the paragraphs after "Inhalt:" and before
\* the first commentary label of the record for item starts, and through the
\* last paragraph of the record when it has no commentary label: every
\* paragraph of that slice that starts an item gives an item.
C23_ContentSliceThroughLastParagraph ==
    ContentItemsReturned =>
        Len(call.ret.items) = Cardinality(ItemStarts(soup, call.hi))

HasBoldRun(para) == contains(para.inner, <<STRONG_OPEN>>)

StartsWithSigle(para) ==
    startswith(text(para), <<"M", " ">>) \/ startswith(text(para), <<"M", "*", " ">>)

ItemGot == pc = "returned" /\ call.fn = "_get_item" /\ call.ret.exc = ""

\* C24: _get_item gives a label and a link target only to a paragraph with
\* a bold run whose text starts with 'M ' or 'M* '; a paragraph without a bold
\* run gets an empty label and an empty link target.
C24_LabelOnlyForBoldSigle ==
    ItemGot =>
        /\ (call.ret.item.item # <<>> \/ call.ret.item.itemLinkTo # <<>>)
                => HasBoldRun(soup[call.para]) /\ StartsWithSigle(soup[call.para])
        /\ ~HasBoldRun(soup[call.para])
                => call.ret.item.item = <<>> /\ call.ret.item.itemLinkTo = <<>>

\* C25: every paragraph of the content slice that does not begin with a
\* tab, 'S.' or 'Bl.' gives one item; the item of a paragraph without a bold
\* 'M ' or 'M* ' label has an empty label and, as its description, the content
\* of the paragraph without the colon at its end.
C25_OneItemForEachStart ==
    /\ ContentItemsReturned =>
            Len(call.ret.items) = Cardinality(ItemStarts(soup, call.hi))
    /\ (ItemGot /\ StartsItem(text(soup[call.para]))
              /\ ~(HasBoldRun(soup[call.para]) /\ StartsWithSigle(soup[call.para])))
        => /\ call.ret.item.item = <<>>
           /\ call.ret.item.itemDescription
                    = rstrip(strip(_strip_tag(soup[call.para])), {":"})

\* The siblings collected after the paragraph of the call.
SiblingsOfCall == _find_siblings(soup, next_sibling(soup, call.para), <<>>).paras

HasLiteralMarker(para) ==
    contains(text(para), <<"B", "l", ".">>) \/ contains(text(para), <<"S", ".">>)

HasSystemMarker(para) == contains(text(para), <<"S", "y", "s", "t", "e", "m">>)

\* The siblings with a folio or page marker, and the j-th of them.
MarkerSiblings(siblings) ==
    SelectSeq([k \in 1..Len(siblings) |-> k],
              LAMBDA k : HasLiteralMarker(soup[siblings[k]]))

\* The system groups of the j-th folio: one of its own paragraph, if that
\* has the system marker, and one for each sibling with the system marker
\* alone up to the next folio.
GroupsOfFolio(siblings, markers, j) ==
    (IF HasSystemMarker(soup[siblings[markers[j]]]) THEN 1 ELSE 0)
    + Cardinality({k \in (markers[j] + 1)..Len(siblings) :
                        /\ j < Len(markers) => k < markers[j + 1]
                        /\ HasSystemMarker(soup[siblings[k]])
                        /\ ~HasLiteralMarker(soup[siblings[k]])})

FoliosGot == pc = "returned" /\ call.fn = "_get_folios" /\ call.ret.exc = ""

FoliosOfMarkers(siblings, markers, folios) ==
    /\ Len(folios) = Len(markers)
    /\ \A j \in 1..Len(markers) :
            j <= Len(folios) =>
                Len(folios[j].systemGroups) = GroupsOfFolio(siblings, markers, j)

\* C26: _get_folios makes a folio for exactly the siblings whose text
\* contains 'Bl.' or 'S.' literally, in document order, and a sibling with the
\* system marker and neither of the two adds one system group to the folio
\* made last.
C26_FolioForLiteralMarker ==
    FoliosGot =>
        FoliosOfMarkers(SiblingsOfCall, MarkerSiblings(SiblingsOfCall), call.ret.folios)

\* C27: the sibling walk of an item paragraph ends and returns a list, also
\* when it reaches the end of the document.
C27_SiblingWalkReturnsAList ==
    (pc = "returned" /\ call.fn = "_find_siblings") => call.ret.exc = ""

\* C28: the paragraphs collected for an item of the record lie in the
\* content slice of the record: before the commentary label and before the
\* next record.
C28_SiblingsInsideContentSlice ==
    (pc = "returned" /\ call.fn = "_find_siblings" /\ call.ret.exc = ""
        /\ InContentSlice(soup, RecordEnd(soup), call.para))
    => \A k \in 1..Len(call.ret.paras) :
            InContentSlice(soup, RecordEnd(soup), call.ret.paras[k])

----------------------------------------------------------------------------
(* Properties of the comment blocks of a table *)

IsHeaderRow(tr) == "colspan" \in DOMAIN tr.cells[1]

\* The positions of the header rows among the rows 2..(row - 1), the rows
\* the loop has passed, in row order.
HeaderRowsPassed ==
    SelectSeq([k \in 1..(row - 2) |-> k + 1], LAMBDA k : IsHeaderRow(soup[k]))

\* The comments of the comment rows between two positions, in row order.
CommentsBetween(lo, hi) ==
    LET rows == SelectSeq([k \in 1..(hi - lo - 1) |-> lo + k],
                          LAMBDA k : ~IsHeaderRow(soup[k]))
    IN [k \in 1..Len(rows) |-> _get_comment(soup[rows[k]].cells)]

BlockOfHeader(headers, j) ==
    [blockHeader |-> _strip_tag_and_clean(soup[headers[j]].cells[1]),
     blockComments |-> CommentsBetween(headers[j],
                            IF j < Len(headers) THEN headers[j + 1] ELSE row)]

\* The block without a header, of the comment rows before the first header
\* row: removed only while it is empty, by a header row.
HeaderlessBlock(headers) ==
    [blockHeader |-> <<>>,
     blockComments |-> CommentsBetween(1, IF headers = <<>> THEN row ELSE headers[1])]

BlocksOfRows(headers) ==
    (IF headers # <<>> /\ HeaderlessBlock(headers).blockComments = <<>>
     THEN <<>> ELSE <<HeaderlessBlock(headers)>>)
    \o [j \in 1..Len(headers) |-> BlockOfHeader(headers, j)]

\* C29: while the rows of a table are processed, block_index is the index
\* of the last comment block, the comment of every comment row is in the block
\* of the header row before it (in the block without a header, without one),
\* every header row has left a block with its header, in row order, and no
\* block but an empty block without a header has been removed.
C29_BlocksFollowHeaderRows ==
    pc \in {"_process_table_rows", "returned"} /\ row >= 2
        => /\ block_index = Len(textcritics) - 1
           /\ textcritics = BlocksOfRows(HeaderRowsPassed)

----------------------------------------------------------------------------
(* Properties of a record assembled twice *)

SameSiglum(first, second) ==
    /\ second.siglum = first.siglum
    /\ second.siglumAddendum = first.siglumAddendum
    /\ second.id = first.id

\* C30: create_source_description leaves the paragraphs it reads as they
\* are, and the record assembled from them a second time has the siglum, the
\* siglumAddendum and the id of the first.
C30_SecondAssemblyIsTheSame ==
    [][(/\ call'.fn = "create_source_description"
        /\ pc' \in {"returned", "returned again"}
        /\ call'.ret.exc = "")
       => /\ soup' = soup
          /\ (pc' = "returned again" /\ call.ret.exc = "")
                => SameSiglum(call.ret.ret, call'.ret.ret)]_vars

====
